---- MODULE Spec2Model ----
(***************************************************************************)
(* A model of claudeboss (src/src/claudeboss): the summary cache and       *)
(* summarize_single (summarizer.py), the session loader (session.py) and   *)
(* the project-directory resolver (active_detector.py).                    *)
(*                                                                         *)
(* Text is modelled as sequences: an excerpt is a sequence of characters   *)
(* ("a", "b" and the newline "\n"), a title is a sequence of words.  The   *)
(* empty string is the empty sequence << >>.                               *)
(***************************************************************************)
EXTENDS Integers, Sequences, FiniteSets, TLC

VARIABLES
    files,       \* summariser runs: the record file behind each session identifier
    sessions,    \* the in-memory Session objects, by identifier
    cacheFile,   \* the content of ~/.cache/claudeboss/summary_cache.json
    pc,          \* per task: where it is inside summarize_single
    arg,         \* per task: the identifier of the session it was called on
    cache,       \* per task: the local `cache` value load_cache() returned
    summary,     \* per task: the local `summary` the generation call returned
    genLog,      \* the generator calls of the current summarize_single call
    atCall,      \* the persisted cache and the Session as they were at the call
    crashed,     \* an exception escaped on the main thread
    disk,        \* load_sessions: the record files under ~/.claude/projects
    scanned,     \* the record files the scan has passed
    curProject,  \* the project directory the outer loop is in
    all_sessions,\* load_sessions' list all_sessions
    by_path,     \* load_sessions' dict by_path
    dedupAt,     \* the index of the deduplication loop in all_sessions
    lpc,         \* where load_sessions is: "scan", "dedup", "done", "raised"
    cur_cwd,     \* find_project_dir: the working directory to resolve
    existing,    \* the names that exist under ~/.claude/projects
    probeAt,     \* find_project_dir: the index of the candidate loop
    probed,      \* the candidates whose existence has been asked, in order
    project_dir, \* what find_project_dir returned
    correlated,  \* the project directories whose sessions the correlator read
    fpc,         \* where the resolution is: "probe", "returned", "done"
    windowed,    \* liveness: per working directory, the live processes in a marked window
    bare,        \* per working directory, the live processes without such a window
    shared,      \* the working directories whose process a second marked window finds again
    wmctrl,      \* how the last call of wmctrl ended ("none" before it)
    pstree,      \* how the calls of pstree ended
    pgrep,       \* how the call of pgrep ended
    cwd_counts,  \* get_active_session_uuids' dict cwd_counts
    todo,        \* the working directories the current loop has still to go through
    active_uuids,\* get_active_session_uuids' set active_uuids
    apc,         \* where get_active_session_uuids is
    timestamps,  \* reconstruct_activity: the list of (time, label) evidence
    periods,     \* _group_into_periods' list periods
    period_start,\* _group_into_periods' local period_start
    period_end,  \* _group_into_periods' local period_end
    period_messages, \* _group_into_periods' list period_messages
    gidx,        \* the index of the grouping loop in timestamps
    timeline,    \* the ActivityTimeline that reconstruct_activity returned
    shown,       \* the aggregates the display read from the timeline
    gpc,         \* where reconstruct_activity is
    listing,     \* the application: view.state.sessions, a list of Session objects
    to_summarize,\* _background_summarize's list to_summarize
    bidx,        \* the index of its loop in to_summarize
    bpc,         \* where the background summarizer is: "unstarted", "loop", "finished"
    stop_summarizer,     \* the event _stop_summarizer
    stop_active_watcher, \* the event _stop_active_watcher
    running,     \* the main loop's flag self.running
    started,     \* the calls of summarize_single the background summarizer has made
    atBgStart,   \* the session list as the background summarizer found it
    reloads,     \* how often _reload_sessions has run
    regens,      \* how often _regenerate_summary has run
    wpc,         \* where the liveness watcher is: "loop", "sleeping", "pass", "finished"
    sleepLeft,   \* the seconds its sleep has still to last
    sinceEnd,    \* the seconds since its last pass ended (or since it started)
    passLen,     \* the seconds its current or last pass has taken
    passList,    \* the session list its pass goes through
    lastPass,    \* what held when its last pass began
    inPass,      \* the liveness passes in progress
    mode,        \* App.mode: "list" or "detail"
    detail_state,    \* detail_view.state: the DetailState shown (0: none)
    detail_states,   \* the DetailState objects made so far
    log_cache,   \* the persisted cache of temporal logs
    log_threads, \* the threads of _generate_temporal_log_background
    filtered,    \* ListState.filtered
    cursor,      \* ListState.cursor
    scroll_offset,   \* ListState.scroll_offset
    sort_mode,   \* ListState.sort_mode
    category_filter, \* ListState.category_filter
    page_size    \* ListState.page_size

sumVars == <<files, sessions, cacheFile, pc, arg, cache, summary, genLog, atCall, crashed>>

loadVars == <<disk, scanned, curProject, all_sessions, by_path, dedupAt, lpc>>

pathVars == <<cur_cwd, existing, probeAt, probed, project_dir, correlated, fpc>>

detVars == <<windowed, bare, shared, wmctrl, pstree, pgrep, cwd_counts, todo, active_uuids, apc>>

perVars == <<timestamps, periods, period_start, period_end, period_messages, gidx,
             timeline, shown, gpc>>

appVars == <<listing, to_summarize, bidx, bpc, stop_summarizer, stop_active_watcher,
             running, started, atBgStart, reloads, regens, wpc, sleepLeft, sinceEnd,
             passLen, passList, lastPass, inPass>>

dtlVars == <<mode, detail_state, detail_states, log_cache, log_threads>>

uiVars == <<filtered, cursor, scroll_offset, sort_mode, category_filter, page_size>>

vars == <<sumVars, loadVars, pathVars, detVars, perVars, appVars, dtlVars, uiVars>>

\* What the actions of one part of the program leave alone.
notSum == <<loadVars, pathVars, detVars, perVars, appVars, dtlVars, uiVars>>
notLoad == <<sumVars, pathVars, detVars, perVars, appVars, dtlVars, uiVars>>
notPath == <<sumVars, loadVars, detVars, perVars, appVars, dtlVars, uiVars>>
notDet == <<sumVars, loadVars, pathVars, perVars, appVars, dtlVars, uiVars>>
notPer == <<sumVars, loadVars, pathVars, detVars, appVars, dtlVars, uiVars>>
notApp == <<loadVars, pathVars, detVars, perVars, dtlVars, uiVars>>
notDtl == <<loadVars, pathVars, detVars, perVars, appVars, uiVars>>
notUi == <<loadVars, pathVars, detVars, perVars, appVars, dtlVars>>

----------------------------------------------------------------------------
(* Bounds of the model and constants of the program.                       *)

MaxAppends == 3            \* messages appended to a record file in one run
MaxFiles == 2              \* record files under the projects directory
MaxDepth == 2              \* components of a working directory
MaxProcs == 2              \* live processes in marked windows, per working directory
MaxItems == 4              \* items of evidence of one timeline

DELTA_THRESHOLD == 10000   \* summarizer.py:170
EXCERPT_CAP == 2000        \* session.py:245, 252
MIN_SIZE == 500            \* session.py:145
GAP_THRESHOLD == 30        \* activity.py:131, in minutes

Tasks == {"caller"}

----------------------------------------------------------------------------
(* Text helpers.                                                           *)

Min(a, b) == IF a < b THEN a ELSE b

Max(a, b) == IF a > b THEN a ELSE b

RECURSIVE Strip(_)
\* str.strip(): leading and trailing whitespace (here: newlines) removed.
Strip(s) ==
    IF s = << >> THEN s
    ELSE IF Head(s) = "\n" THEN Strip(Tail(s))
    ELSE IF s[Len(s)] = "\n" THEN Strip(SubSeq(s, 1, Len(s) - 1))
    ELSE s

CharCode(c) == CASE c = "a" -> 1 [] c = "b" -> 2 [] OTHER -> 3

RECURSIVE _stable_hash(_)
\* md5(s)[:16]: a digest of the whole string; on the bounded strings of the
\* model a positional code, so that different strings have different digests.
_stable_hash(s) ==
    IF s = << >> THEN 0
    ELSE _stable_hash(SubSeq(s, 1, Len(s) - 1)) * 4 + CharCode(s[Len(s)])

----------------------------------------------------------------------------
(* Record files and _load_session_file.  A message text is "a" or "b"      *)
(* (one character) or "L", a text of 2001 characters.                      *)

TextLen(t) == IF t = "L" THEN 2001 ELSE 1

RECURSIVE BuildStart(_, _)
\* session.py:243-247: filled front to back, stopping at the first text that
\* would take the excerpt over the cap.
BuildStart(texts, acc) ==
    IF texts = << >> THEN acc
    ELSE IF Len(acc) + TextLen(Head(texts)) > EXCERPT_CAP THEN acc
    ELSE BuildStart(Tail(texts), acc \o <<Head(texts), "\n">>)

RECURSIVE BuildEnd(_, _)
\* session.py:250-254: filled back to front under the same cap.
BuildEnd(texts, acc) ==
    IF texts = << >> THEN acc
    ELSE IF Len(acc) + TextLen(texts[Len(texts)]) > EXCERPT_CAP THEN acc
    ELSE BuildEnd(SubSeq(texts, 1, Len(texts) - 1),
                  <<texts[Len(texts)], "\n">> \o acc)

\* detector.py:25-29 with the default patterns: "work" occurs in the paths.
is_work_session(cwd, project_path) == cwd = "/work" \/ project_path = "home-work"

\* session.py:163-269: the Session built from a record file that parses.
_load_session_file(f) ==
    [uuid          |-> f.stem,
     cwd           |-> f.cwd,
     project_path  |-> f.project,
     context_size  |-> f.size,
     first_message |-> f.first_message,
     context_start |-> Strip(BuildStart(f.texts, << >>)),
     context_end   |-> Strip(BuildEnd(f.texts, << >>)),
     last_summary  |-> << >>,
     category      |-> "personal",
     is_active     |-> FALSE]

----------------------------------------------------------------------------
(* The text generator and _extract_title.  A raw output of the CLI is a    *)
(* sequence of lines, a line a sequence of words; the word "**" stands for *)
(* a word made of asterisks only, which .replace() deletes.                *)

RawOutputs ==
    { << >>,                          \* "": time-out, missing tool, non-zero exit
      << <<"**">> >>,                 \* markup and nothing else
      << <<"ssh", "setup">> >>,       \* a title not in title case
      << <<"Db", "Tool">> >> }        \* a title as asked for

WordLen(w) == CASE w = "**" -> 0 [] w = "Db" -> 2 [] w = "ssh" -> 3
                [] w = "Tool" -> 4 [] w = "setup" -> 5 [] OTHER -> 7

\* str.title() on one word.
TitleCase(w) == CASE w = "ssh" -> "Ssh" [] w = "setup" -> "Setup" [] OTHER -> w

NoMarkup(line) == SelectSeq(line, LAMBDA w : w # "**")

RECURSIVE SumLen(_)
SumLen(words) == IF words = << >> THEN 0 ELSE WordLen(Head(words)) + SumLen(Tail(words))

\* len() of the stripped line after both .replace() calls: the words' own
\* characters and the blanks between the words of the line.
LineLen(line) == IF line = << >> THEN 0 ELSE SumLen(line) + Len(line) - 1

\* ' '.join(words[:6]).title()
TitleOf(words) == [i \in 1..Min(6, Len(words)) |-> TitleCase(words[i])]

\* summarizer.py:79-81: the line is taken as the title.
LineIsTitle(line) ==
    /\ LineLen(line) > 0
    /\ Head(line) \notin {"Session", "Shell"}
    /\ LineLen(line) < 80
    /\ Len(NoMarkup(line)) <= 8

RECURSIVE LastTitleLine(_)
\* summarizer.py:77-82: the last line that is taken, or << >> when none is.
LastTitleLine(lines) ==
    IF lines = << >> THEN << >>
    ELSE IF LineIsTitle(lines[Len(lines)]) THEN <<lines[Len(lines)]>>
    ELSE LastTitleLine(SubSeq(lines, 1, Len(lines) - 1))

\* summarizer.py:72-83
_extract_title(raw) ==
    IF raw = << >> THEN << >>
    ELSE IF LastTitleLine(raw) # << >> THEN TitleOf(NoMarkup(LastTitleLine(raw)[1]))
    ELSE TitleOf(NoMarkup(raw[1]))

----------------------------------------------------------------------------
(* The persisted cache.  The file holds a JSON value: a mapping ("dict"),  *)
(* the list [] ("list") or null ("null"); or text that is no JSON, or a     *)
(* file that cannot be opened ("invalid"); or bytes that are no UTF-8       *)
(* ("binary").  An entry of the mapping is a plain string (shape "str", the *)
(* legacy form) or {hash, size, summary} (shape "dict").                    *)

EmptyCache == [kind |-> "dict", map |-> << >>]

LegacyTitle == <<"Old", "Title">>

LegacyEntry == [shape |-> "str", hash |-> 0, size |-> 0, summary |-> LegacyTitle]
\* A variant that stores no size.
NewEntryNoSize(h, size, text) == [shape |-> "dict", hash |-> h, size |-> 0, summary |-> text]

\* summarizer.py:157, 177, 189
NewEntry(h, size, text) == [shape |-> "dict", hash |-> h, size |-> size, summary |-> text]

\* summarizer.py:28: what the handler of load_cache catches.
Caught(kind) == kind = "invalid"

\* summarizer.py:27: json.load raises UnicodeDecodeError, which is neither a
\* JSONDecodeError nor an IOError.
LoadCacheRaises == cacheFile.kind = "binary" /\ ~Caught(cacheFile.kind)

\* summarizer.py:18-30
load_cache == IF Caught(cacheFile.kind) THEN EmptyCache ELSE cacheFile

\* `key in cache` where it does not raise: a mapping has its keys, [] has none.
KeyIn(c, key) == c.kind = "dict" /\ key \in DOMAIN c.map

\* `cache[key] = entry` on a mapping
SetItem(c, key, entry) == [c EXCEPT !.map = (key :> entry) @@ c.map]

\* summarizer.py:147
ContentHash(s) == _stable_hash(s.context_start \o s.context_end)

\* summarizer.py:142
NoExcerpts(s) == s.context_start = << >> /\ s.context_end = << >>
\* A variant that takes an entry for fresh when the fingerprints differ.
IsFreshInverted(entry, h) == entry.hash # h

\* summarizer.py:161
IsFresh(entry, h) == entry.hash = h
\* A variant that measures growth from nothing, not from the recorded size.
GrowthFromZero(current_size, old_size) == current_size < DELTA_THRESHOLD
\* A variant that also reuses the title at a growth of exactly the threshold.
GrowthAtMostThreshold(current_size, old_size) == current_size - old_size <= DELTA_THRESHOLD

\* summarizer.py:170
GrowthBelowThreshold(current_size, old_size) == current_size - old_size < DELTA_THRESHOLD
\* A variant that shows nothing after any failed generation.
FallbackNothing(where, old_summary) == << >>

\* summarizer.py:180-181 and 192-193: what is displayed when no title came back.
FallbackSummary(where, old_summary) == IF where = "delta_ret" THEN old_summary ELSE << >>

SetSummary(u, text) == sessions' = [sessions EXCEPT ![u].last_summary = text]

----------------------------------------------------------------------------
(* summarize_single, one step per action.  load_cache, the generator call  *)
(* and save_cache are separate steps of the task.                          *)

\* A caller (app.py:160, 293) calls summarize_single(session).
CallSummarize(t, u) ==
    /\ ~crashed
    /\ \A x \in Tasks : pc[x] = "idle"
    /\ pc' = [pc EXCEPT ![t] = "start"]
    /\ arg' = [arg EXCEPT ![t] = u]
    /\ summary' = [summary EXCEPT ![t] = << >>]
    /\ cache' = [cache EXCEPT ![t] = EmptyCache]
    /\ genLog' = << >>
    /\ atCall' = [cache |-> cacheFile, session |-> sessions[u]]
    /\ UNCHANGED <<files, sessions, cacheFile, crashed, notSum>>

\* summarizer.py:142-148
Begin(t) ==
    /\ pc[t] = "start"
    /\ IF NoExcerpts(sessions[arg[t]])
       THEN /\ SetSummary(arg[t], << >>)
            /\ pc' = [pc EXCEPT ![t] = "done"]
            /\ UNCHANGED cache
       ELSE IF LoadCacheRaises
       THEN /\ pc' = [pc EXCEPT ![t] = "raised"]
            /\ UNCHANGED <<sessions, cache>>
       ELSE /\ cache' = [cache EXCEPT ![t] = load_cache]
            /\ pc' = [pc EXCEPT ![t] = "loaded"]
            /\ UNCHANGED sessions
    /\ UNCHANGED <<files, cacheFile, arg, summary, genLog, atCall, crashed, notSum>>

\* summarizer.py:151-172
Check(t) ==
    /\ pc[t] = "loaded"
    /\ LET c == cache[t]
           s == sessions[arg[t]]
           key == s.uuid
           entry == c.map[key]
       IN  IF c.kind = "null"
           THEN \* line 152: argument of type 'NoneType' is not iterable
                /\ pc' = [pc EXCEPT ![t] = "raised"]
                /\ UNCHANGED <<sessions, cache, cacheFile>>
           ELSE IF ~KeyIn(c, key)
           THEN /\ pc' = [pc EXCEPT ![t] = "full"]
                /\ UNCHANGED <<sessions, cache, cacheFile>>
           ELSE IF entry.shape = "str"
           THEN \* lines 155-160: migrate and save
                /\ cache' = [cache EXCEPT ![t] =
                        SetItem(c, key, NewEntry(ContentHash(s), s.context_size, entry.summary))]
                /\ cacheFile' = cache'[t]
                /\ SetSummary(arg[t], entry.summary)
                /\ pc' = [pc EXCEPT ![t] = "done"]
           ELSE IF IsFresh(entry, ContentHash(s))
           THEN /\ SetSummary(arg[t], entry.summary)
                /\ pc' = [pc EXCEPT ![t] = "done"]
                /\ UNCHANGED <<cache, cacheFile>>
           ELSE IF GrowthBelowThreshold(s.context_size, entry.size)
           THEN /\ SetSummary(arg[t], entry.summary)
                /\ pc' = [pc EXCEPT ![t] = "done"]
                /\ UNCHANGED <<cache, cacheFile>>
           ELSE /\ pc' = [pc EXCEPT ![t] = "delta"]
                /\ UNCHANGED <<sessions, cache, cacheFile>>
    /\ UNCHANGED <<files, arg, summary, genLog, atCall, crashed, notSum>>

\* summarizer.py:175 (_summarize_delta) and 186 (_summarize_via_cli): the
\* prompt goes to _call_haiku, whose output _extract_title turns into a title.
Generate(t) ==
    /\ pc[t] \in {"full", "delta"}
    /\ \E raw \in RawOutputs :
          /\ summary' = [summary EXCEPT ![t] = _extract_title(raw)]
          /\ genLog' = Append(genLog,
                 [template |-> IF pc[t] = "full" THEN "title" ELSE "update",
                  raw |-> raw])
    /\ pc' = [pc EXCEPT ![t] = IF pc[t] = "full" THEN "full_ret" ELSE "delta_ret"]
    /\ UNCHANGED <<files, sessions, cacheFile, arg, cache, atCall, crashed, notSum>>

\* summarizer.py:176-182 and 188-193
Store(t) ==
    /\ pc[t] \in {"full_ret", "delta_ret"}
    /\ LET c == cache[t]
           s == sessions[arg[t]]
           key == s.uuid
       IN  IF summary[t] # << >>
           THEN IF c.kind = "list"
                THEN \* lines 177, 189: list indices must be integers, not str
                     /\ pc' = [pc EXCEPT ![t] = "raised"]
                     /\ UNCHANGED <<sessions, cache, cacheFile>>
                ELSE /\ cache' = [cache EXCEPT ![t] =
                             SetItem(c, key, NewEntry(ContentHash(s), s.context_size, summary[t]))]
                     /\ cacheFile' = cache'[t]
                     /\ SetSummary(arg[t], summary[t])
                     /\ pc' = [pc EXCEPT ![t] = "done"]
           ELSE /\ SetSummary(arg[t], FallbackSummary(pc[t], c.map[key].summary))
                /\ pc' = [pc EXCEPT ![t] = "done"]
                /\ UNCHANGED <<cache, cacheFile>>
    /\ UNCHANGED <<files, arg, summary, genLog, atCall, crashed, notSum>>

\* summarize_single returns to its caller.
Return(t) ==
    /\ pc[t] = "done"
    /\ pc' = [pc EXCEPT ![t] = "idle"]
    /\ UNCHANGED <<files, sessions, cacheFile, arg, cache, summary, genLog, atCall, crashed, notSum>>

SummarizeStep(t) == Begin(t) \/ Check(t) \/ Generate(t) \/ Store(t) \/ Return(t)

----------------------------------------------------------------------------
(* SpecSum: one session whose record file grows between calls of           *)
(* summarize_single; the Session object is rebuilt from the file by a load *)
(* (app.py:112, 274).                                                      *)

\* What one appended message adds: its text and the bytes of its line.
AppendKinds ==
    { [text |-> "a", grow |-> 5000],
      [text |-> "b", grow |-> 4999],
      [text |-> "L", grow |-> 5000] }

\* The record file of session `stem`, each session in a directory of its own.
RecordFile(stem, texts) ==
    [stem |-> stem, project |-> "home-user-" \o stem, size |-> MIN_SIZE,
     cwd |-> "/home/user/" \o stem, first_message |-> "hi", texts |-> texts,
     nonobject |-> FALSE]

Idle == ~crashed /\ \A t \in Tasks : pc[t] = "idle"

\* The running session appends a message to its record file.
AppendText(u) ==
    /\ Idle
    /\ Len(files[u].texts) < MaxAppends
    /\ \E k \in AppendKinds :
          files' = [files EXCEPT ![u].texts = Append(@, k.text),
                                 ![u].size = @ + k.grow]
    /\ UNCHANGED <<sessions, cacheFile, pc, arg, cache, summary, genLog, atCall, crashed, notSum>>

\* session.py:135: the Session is read again from its record file.
ReloadSession(u) ==
    /\ Idle
    /\ sessions[u] # _load_session_file(files[u])
    /\ sessions' = [sessions EXCEPT ![u] = _load_session_file(files[u])]
    /\ UNCHANGED <<files, cacheFile, pc, arg, cache, summary, genLog, atCall, crashed, notSum>>

\* load_sessions is not running.
LoadIdle ==
    /\ disk = << >>
    /\ scanned = {}
    /\ curProject = ""
    /\ all_sessions = << >>
    /\ by_path = << >>
    /\ dedupAt = 1
    /\ lpc = "done"

PathIdle ==
    /\ cur_cwd = << >>
    /\ existing = {}
    /\ probeAt = 1
    /\ probed = << >>
    /\ project_dir = [found |-> FALSE, name |-> << >>]
    /\ correlated = {}
    /\ fpc = "done"

\* No timeline is under reconstruction.
PerIdle ==
    /\ timestamps = << >>
    /\ periods = << >>
    /\ period_start = 0
    /\ period_end = 0
    /\ period_messages = << >>
    /\ gidx = 1
    /\ timeline = << >>
    /\ shown = << >>
    /\ gpc = "done"

\* get_active_session_uuids is not running.
DetIdle ==
    /\ windowed = << >>
    /\ bare = << >>
    /\ shared = {}
    /\ wmctrl = "none"
    /\ pstree = "none"
    /\ pgrep = "none"
    /\ cwd_counts = << >>
    /\ todo = {}
    /\ active_uuids = {}
    /\ apc = "done"

\* No detail view has been opened.
DtlIdle ==
    /\ mode = "list"
    /\ detail_state = 0
    /\ detail_states = << >>
    /\ log_cache = << >>
    /\ log_threads = << >>

\* No session list is shown.
UiIdle ==
    /\ filtered = << >>
    /\ cursor = 0
    /\ scroll_offset = 0
    /\ sort_mode = "mtime"
    /\ category_filter = "both"
    /\ page_size = 1

\* The application's threads are not running.
AppStopped ==
    /\ to_summarize = << >>
    /\ bidx = 1
    /\ bpc = "finished"
    /\ stop_summarizer = FALSE
    /\ stop_active_watcher = FALSE
    /\ running = FALSE
    /\ started = << >>
    /\ atBgStart = << >>
    /\ reloads = 0
    /\ regens = 0
    /\ wpc = "finished"
    /\ sleepLeft = 0
    /\ sinceEnd = 0
    /\ passLen = 0
    /\ passList = << >>
    /\ lastPass = << >>
    /\ inPass = 0

AppIdle ==
    /\ listing = << >>
    /\ AppStopped

TaskInit ==
    /\ pc = [t \in Tasks |-> "idle"]
    /\ arg = [t \in Tasks |-> "u1"]
    /\ cache = [t \in Tasks |-> EmptyCache]
    /\ summary = [t \in Tasks |-> << >>]
    /\ genLog = << >>
    /\ crashed = FALSE

InitSum ==
    /\ files = [u \in {"u1"} |-> RecordFile(u, << >>)]
    /\ sessions = [u \in {"u1"} |-> _load_session_file(files[u])]
    /\ cacheFile \in {EmptyCache, [kind |-> "dict", map |-> ("u1" :> LegacyEntry)]}
    /\ atCall = [cache |-> cacheFile, session |-> sessions["u1"]]
    /\ TaskInit
    /\ LoadIdle
    /\ PathIdle
    /\ DetIdle
    /\ PerIdle
    /\ AppIdle
    /\ DtlIdle
    /\ UiIdle

NextSum ==
    \/ \E t \in Tasks, u \in DOMAIN sessions : CallSummarize(t, u)
    \/ \E t \in Tasks : SummarizeStep(t)
    \/ \E u \in DOMAIN files : AppendText(u)
    \/ \E u \in DOMAIN files : ReloadSession(u)

SpecSum == InitSum /\ [][NextSum]_vars

----------------------------------------------------------------------------
(* SpecCache: two sessions, a persisted cache left behind by an earlier    *)
(* version or damaged on disk, the start-up read of the cache and calls of *)
(* summarize_single.                                                       *)

\* app.py:137-147: the summaries are pre-populated from the cache.
CachedSummary(c, s) ==
    IF NoExcerpts(s) \/ ~KeyIn(c, s.uuid) THEN s.last_summary
    ELSE c.map[s.uuid].summary

_load_cached_summaries ==
    /\ Idle
    /\ IF LoadCacheRaises \/ (load_cache.kind = "null" /\ \E u \in DOMAIN sessions : ~NoExcerpts(sessions[u]))
       THEN \* app.py:139, 142: the exception leaves App.run
            /\ crashed' = TRUE
            /\ UNCHANGED sessions
       ELSE /\ sessions' = [u \in DOMAIN sessions |->
                    [sessions[u] EXCEPT !.last_summary = CachedSummary(load_cache, sessions[u])]]
            /\ sessions' # sessions
            /\ UNCHANGED crashed
    /\ UNCHANGED <<files, cacheFile, pc, arg, cache, summary, genLog, atCall, notSum>>

LegacyMaps ==
    { << >>, ("u1" :> LegacyEntry), ("u2" :> LegacyEntry),
      ("u1" :> LegacyEntry) @@ ("u2" :> LegacyEntry) }

InitCache ==
    /\ files = ("u1" :> RecordFile("u1", <<"a">>)) @@ ("u2" :> RecordFile("u2", <<"b">>))
    /\ sessions = [u \in {"u1", "u2"} |-> _load_session_file(files[u])]
    /\ cacheFile \in [kind : {"dict"}, map : LegacyMaps]
                     \cup [kind : {"list", "null", "invalid", "binary"}, map : {<< >>}]
    /\ atCall = [cache |-> cacheFile, session |-> sessions["u1"]]
    /\ TaskInit
    /\ LoadIdle
    /\ PathIdle
    /\ DetIdle
    /\ PerIdle
    /\ AppIdle
    /\ DtlIdle
    /\ UiIdle

NextCache ==
    \/ \E t \in Tasks, u \in DOMAIN sessions : CallSummarize(t, u)
    \/ \E t \in Tasks : SummarizeStep(t)
    \/ _load_cached_summaries

SpecCache == InitCache /\ [][NextCache]_vars

----------------------------------------------------------------------------
(* SpecLoad: load_sessions over a projects directory.  The record files    *)
(* are numbered; file i has the stem "s<i>", or "agent-s<i>" for the record *)
(* of a sub-agent.  A file is described by what _load_session_file reads    *)
(* from it; `nonobject` says that one of its lines is JSON but not an       *)
(* object ([1, 2], null, "text"), on which entry.get raises AttributeError. *)
(* Lines that are no JSON at all are passed over by the parser              *)
(* (session.py:186-189) and leave no trace in the description.              *)

Slots == 1..MaxFiles

Stem(i) == "s" \o ToString(i)
AgentStem(i) == "agent-" \o Stem(i)

PreflightPreview == "Evaluate if this bash command is safe"

\* The eight well-formed records: two projects, with or without a working
\* directory, of 500 or 900 bytes.
PlainFiles(i) ==
    [stem : {Stem(i)}, project : {"home-user-proj", "home-work"}, size : {MIN_SIZE, 900},
     cwd : {"", "/home/user/proj"}, first_message : {"hi"}, texts : {<<"a">>},
     nonobject : {FALSE}]

\* Records with one reason to be left out, or without a preview.
OddFiles(i) ==
    [stem : {AgentStem(i)}, project : {"home-user-proj"}, size : {900},
     cwd : {"", "/home/user/proj"}, first_message : {"hi"}, texts : {<<"a">>},
     nonobject : {FALSE}]
    \cup
    [stem : {Stem(i)}, project : {"home-user-proj"}, size : {499, 900},
     cwd : {"", "/home/user/proj"}, first_message : {"", "hi", PreflightPreview},
     texts : {<<"a">>}, nonobject : {FALSE}]
    \cup
    [stem : {Stem(i)}, project : {"home-user-proj"}, size : {900},
     cwd : {"", "/home/user/proj"}, first_message : {"hi"}, texts : {<<"a">>},
     nonobject : {TRUE}]

FileChoices(i) == PlainFiles(i) \cup OddFiles(i)

\* session.py:132
IsAgentFile(stem) == stem \in {AgentStem(i) : i \in Slots}

\* session.py:139
IsCriticHook(first_message) == first_message = PreflightPreview

\* session.py:135, 163-269: the error _load_session_file raises on the file.
ParseError(f) == IF f.nonobject THEN "AttributeError" ELSE "none"
\* A variant that catches JSON errors only.
CaughtJSONOnly(error) == error = "JSONDecodeError"

\* session.py:149-151: `except Exception` catches whatever the parse raises.
CaughtByLoad(error) == TRUE
\* A variant that also drops a session of exactly the minimum size.
TooShortOrEqual(s) == s.context_size <= MIN_SIZE

\* session.py:145
TooShort(s) == s.context_size < MIN_SIZE

\* session.py:142
Useless(s) == s.cwd = "" /\ s.first_message = ""

\* session.py:90-103
categorize_session(s) ==
    IF is_work_session(s.cwd, s.project_path) THEN "professional" ELSE "personal"

\* session.py:156
PathKey(s) == IF s.cwd # "" THEN s.cwd ELSE s.project_path
\* A variant that keeps the smaller session.
ReplacesSmaller(s, kept) == s.context_size < kept.context_size

\* session.py:157: the session takes the place of the one kept for its key.
Replaces(s, kept) == s.context_size > kept.context_size

Unscanned == {i \in DOMAIN disk : i \notin scanned}

\* session.py:124-151: one pass of the inner loop, on one record file.  The
\* directory listings come in any order; a project's files are gone through
\* before the next project's.
ScanFile(i) ==
    /\ lpc = "scan"
    /\ i \in Unscanned
    /\ (\E j \in Unscanned : disk[j].project = curProject) => disk[i].project = curProject
    /\ curProject' = disk[i].project
    /\ scanned' = scanned \cup {i}
    /\ LET f == disk[i]
           s == _load_session_file(f)
       IN  IF IsAgentFile(f.stem)
           THEN UNCHANGED <<all_sessions, lpc>>
           ELSE IF ParseError(f) # "none"
           THEN IF CaughtByLoad(ParseError(f))
                THEN UNCHANGED <<all_sessions, lpc>>
                ELSE lpc' = "raised" /\ UNCHANGED all_sessions
           ELSE IF IsCriticHook(s.first_message) \/ Useless(s) \/ TooShort(s)
           THEN UNCHANGED <<all_sessions, lpc>>
           ELSE /\ all_sessions' = Append(all_sessions,
                                         [s EXCEPT !.category = categorize_session(s)])
                /\ UNCHANGED lpc
    /\ UNCHANGED <<disk, by_path, dedupAt, notLoad>>

\* session.py:153-154: the scan is over.
EndScan ==
    /\ lpc = "scan"
    /\ Unscanned = {}
    /\ lpc' = "dedup"
    /\ UNCHANGED <<disk, scanned, curProject, all_sessions, by_path, dedupAt, notLoad>>

\* session.py:155-158: one pass of the deduplication loop.
DedupStep ==
    /\ lpc = "dedup"
    /\ dedupAt <= Len(all_sessions)
    /\ LET s == all_sessions[dedupAt]
           path_key == PathKey(s)
       IN  by_path' = IF path_key \notin DOMAIN by_path \/ Replaces(s, by_path[path_key])
                      THEN (path_key :> s) @@ by_path
                      ELSE by_path
    /\ dedupAt' = dedupAt + 1
    /\ UNCHANGED <<disk, scanned, curProject, all_sessions, lpc, notLoad>>

\* session.py:160: load_sessions returns list(by_path.values()).
ReturnSessions ==
    /\ lpc = "dedup"
    /\ dedupAt > Len(all_sessions)
    /\ lpc' = "done"
    /\ UNCHANGED <<disk, scanned, curProject, all_sessions, by_path, dedupAt, notLoad>>

\* No record files, an empty summary cache and no summarize task.
SumQuiet ==
    /\ files = << >>
    /\ cacheFile = EmptyCache
    /\ atCall = [cache |-> EmptyCache, session |-> << >>]
    /\ TaskInit

SumIdle ==
    /\ sessions = << >>
    /\ SumQuiet

InitLoad ==
    /\ \E n \in 0..MaxFiles :
          disk \in {d \in [1..n -> UNION {FileChoices(i) : i \in Slots}] :
                       \A i \in 1..n : d[i] \in FileChoices(i)}
    /\ scanned = {}
    /\ curProject = ""
    /\ all_sessions = << >>
    /\ by_path = << >>
    /\ dedupAt = 1
    /\ lpc = "scan"
    /\ SumIdle
    /\ PathIdle
    /\ DetIdle
    /\ PerIdle
    /\ AppIdle
    /\ DtlIdle
    /\ UiIdle

NextLoad ==
    \/ \E i \in Slots : ScanFile(i)
    \/ EndScan
    \/ DedupStep
    \/ ReturnSessions

SpecLoad == InitLoad /\ [][NextLoad]_vars

----------------------------------------------------------------------------
(* SpecPath: the resolution of a working directory to a project directory. *)
(* A path is the sequence of its characters, a working directory the        *)
(* absolute path made of up to MaxDepth components.                         *)

Components == { <<"a">>, <<"a", "_", "b">>, <<".", "c">>, <<"_">>, <<"-">> }

RECURSIVE JoinPath(_)
JoinPath(comps) ==
    IF comps = << >> THEN << >>
    ELSE <<"/">> \o Head(comps) \o JoinPath(Tail(comps))

Cwds ==
    { IF comps = << >> THEN <<"/">> ELSE JoinPath(comps) :
        comps \in UNION {[1..n -> Components] : n \in 0..MaxDepth} }

\* str.replace for a single character.
ReplaceChar(str, from, to) ==
    [i \in 1..Len(str) |-> IF str[i] = from THEN to ELSE str[i]]

\* active_detector.py:139: cwd.replace("/.", "/-")
ReplaceSlashDot(str) ==
    [i \in 1..Len(str) |-> IF i > 1 /\ str[i] = "." /\ str[i - 1] = "/" THEN "-" ELSE str[i]]

\* str.lstrip for a single character.
RECURSIVE LStrip(_, _)
LStrip(str, ch) ==
    IF str # << >> /\ Head(str) = ch THEN LStrip(Tail(str), ch) ELSE str

\* active_detector.py:131-140
cwd_to_project_path(path) ==
    LStrip(ReplaceChar(ReplaceSlashDot(path), "/", "-"), "-")

\* A variant that probes the form with the leading dash first.
CandidatesDashFirst(project_path) ==
    LET alt_path == ReplaceChar(project_path, "_", "-")
    IN  << <<"-">> \o project_path, project_path >>
        \o (IF alt_path # project_path
            THEN << <<"-">> \o alt_path, alt_path >>
            ELSE << >>)

\* active_detector.py:173-182: the names probed under the projects directory.
Candidates(project_path) ==
    LET alt_path == ReplaceChar(project_path, "_", "-")
    IN  << project_path, <<"-">> \o project_path >>
        \o (IF alt_path # project_path
            THEN << alt_path, <<"-">> \o alt_path >>
            ELSE << >>)

\* active_detector.py:186, 188: the two kinds of value find_project_dir returns.
None == [found |-> FALSE, name |-> << >>]
Found(name) == [found |-> TRUE, name |-> name]

\* active_detector.py:185: candidate.exists().  The empty name is the projects
\* directory itself, which exists whenever the resolution is asked for.
Exists(name) == name = << >> \/ name \in existing

\* active_detector.py:184-188: one pass of the candidate loop, or the return
\* of None after the last candidate.
Probe ==
    /\ fpc = "probe"
    /\ LET candidates == Candidates(cwd_to_project_path(cur_cwd))
       IN  IF probeAt > Len(candidates)
           THEN /\ project_dir' = None
                /\ fpc' = "returned"
                /\ UNCHANGED <<probeAt, probed>>
           ELSE /\ probed' = Append(probed, candidates[probeAt])
                /\ IF Exists(candidates[probeAt])
                   THEN /\ project_dir' = Found(candidates[probeAt])
                        /\ fpc' = "returned"
                        /\ UNCHANGED probeAt
                   ELSE /\ probeAt' = probeAt + 1
                        /\ UNCHANGED <<project_dir, fpc>>
    /\ UNCHANGED <<cur_cwd, existing, correlated, notPath>>

\* active_detector.py:218-228: the correlator's use of the resolution.  A
\* working directory without a project directory is passed over.
Correlate ==
    /\ fpc = "returned"
    /\ correlated' = IF ~project_dir.found THEN correlated
                     ELSE correlated \cup {project_dir.name}
    /\ fpc' = "done"
    /\ UNCHANGED <<cur_cwd, existing, probeAt, probed, project_dir, notPath>>

\* The names a project directory of the working directory may have, and one
\* that belongs to another working directory.
NamesFor(path) ==
    LET enc == cwd_to_project_path(path)
        alt == ReplaceChar(enc, "_", "-")
    IN  {enc, <<"-">> \o enc, alt, <<"-">> \o alt, <<"z">>}

InitPath ==
    /\ cur_cwd \in Cwds
    /\ existing \in SUBSET NamesFor(cur_cwd)
    /\ probeAt = 1
    /\ probed = << >>
    /\ project_dir = [found |-> FALSE, name |-> << >>]
    /\ correlated = {}
    /\ fpc = "probe"
    /\ SumIdle
    /\ LoadIdle
    /\ DetIdle
    /\ PerIdle
    /\ AppIdle
    /\ DtlIdle
    /\ UiIdle

NextPath ==
    \/ Probe
    \/ Correlate

SpecPath == InitPath /\ [][NextPath]_vars

----------------------------------------------------------------------------
(* SpecActive: get_active_session_uuids after a load_sessions over the same *)
(* projects directory.  The live processes are given per working directory: *)
(* those that run in a terminal window whose title carries the marker, and  *)
(* those that do not.  The projects directory exists.                       *)

LiveCwds == {"/home/user/proj", "/home/user-proj"}

\* The characters of the path names of the model; a run of letters is one
\* element, since the encoding looks at "/", ".", "_" and "-" only.
Chars(str) ==
    CASE str = "/home/user/proj" -> <<"/", "home", "/", "user", "/", "proj">>
      [] str = "/home/user-proj" -> <<"/", "home", "/", "user", "-", "proj">>
      [] str = "home-user-proj"  -> <<"home", "-", "user", "-", "proj">>
      [] str = "home-work"       -> <<"home", "-", "work">>
      [] OTHER                   -> << >>

RECURSIVE FirstExisting(_, _)
FirstExisting(candidates, names) ==
    IF candidates = << >> THEN None
    ELSE IF Head(candidates) = << >> \/ Head(candidates) \in names
         THEN Found(Head(candidates))
         ELSE FirstExisting(Tail(candidates), names)

\* active_detector.py:164-188, as a function of the names under projects/.
find_project_dir(names, path) ==
    FirstExisting(Candidates(cwd_to_project_path(path)), names)

\* The directories under projects/: one for every project that has a record.
ProjectNames == {Chars(disk[i].project) : i \in DOMAIN disk}

\* active_detector.py:143-161: the non-agent record files of a directory.
get_sessions_in_project(name) ==
    {i \in DOMAIN disk : Chars(disk[i].project) = name /\ ~IsAgentFile(disk[i].stem)}

\* A variant that sorts the smallest record first.
SmallerFirst(i, j) ==
    disk[i].size < disk[j].size \/ (disk[i].size = disk[j].size /\ i < j)

\* active_detector.py:226, 240: sort(key=size, reverse=True) is stable; of two
\* records of one size the one listed first stays first.
LargerFirst(i, j) ==
    disk[i].size > disk[j].size \/ (disk[i].size = disk[j].size /\ i < j)

\* active_detector.py:227: sessions[:count] of the sorted list.
TopN(recs, n) == {i \in recs : Cardinality({j \in recs : LargerFirst(j, i)}) < n}

\* A variant that takes the two largest.
LargestTwo(recs) == TopN(recs, 2)

\* active_detector.py:241: sessions[0] of the sorted list.
Largest(recs) == TopN(recs, 1)

Uuids(recs) == {disk[i].stem : i \in recs}

ToolOutcomes == {"ok", "missing", "timeout", "nonzero"}

\* subprocess.run raises FileNotFoundError for a missing binary and
\* TimeoutExpired after the time-out; a non-zero exit raises nothing.
Raised(outcome) ==
    CASE outcome = "missing" -> "FileNotFoundError"
      [] outcome = "timeout" -> "TimeoutExpired"
      [] OTHER -> "none"

\* A variant that catches the time-out only.
CaughtTimeoutOnly(exc) == exc = "TimeoutExpired"

\* active_detector.py:33, 62, 122, 125: except (TimeoutExpired, FileNotFoundError)
CaughtTool(exc) == exc \in {"TimeoutExpired", "FileNotFoundError"}

Escapes(outcome) == Raised(outcome) # "none" /\ ~CaughtTool(Raised(outcome))

\* active_detector.py:95-117, 210-212: one entry per marked window in whose
\* terminal's process tree a live process is found.  A terminal process that
\* owns a second marked window is searched again, and the search finds the
\* same process again (the first match of the tree).
Entries(c) == windowed[c] + (IF c \in shared THEN 1 ELSE 0)

\* active_detector.py:69-128 and 205-212: the marked windows are listed by
\* wmctrl, the process of each is found by pstree, and the entries are
\* counted per working directory.
GetWindows ==
    /\ apc = "start"
    /\ lpc = "done"
    /\ \E w \in ToolOutcomes, p \in ToolOutcomes :
          LET called == w = "ok" /\ \E c \in LiveCwds : windowed[c] > 0
              seen == IF called /\ p = "ok"
                      THEN {c \in LiveCwds : windowed[c] > 0} ELSE {}
          IN  /\ wmctrl' = w
              /\ pstree' = IF called THEN p ELSE "none"
              /\ IF Escapes(w) \/ (called /\ Escapes(p))
                 THEN /\ apc' = "raised"
                      /\ UNCHANGED <<cwd_counts, todo>>
                 ELSE /\ cwd_counts' = [c \in seen |-> Entries(c)]
                      /\ todo' = seen
                      /\ apc' = "tier1"
    /\ UNCHANGED <<windowed, bare, shared, pgrep, active_uuids, notDet>>

\* active_detector.py:217-228: one pass of the loop over cwd_counts.
Tier1Step(c) ==
    /\ apc = "tier1"
    /\ c \in todo
    /\ LET dir == find_project_dir(ProjectNames, Chars(c))
       IN  active_uuids' =
               IF dir.found
               THEN active_uuids \cup Uuids(TopN(get_sessions_in_project(dir.name), cwd_counts[c]))
               ELSE active_uuids
    /\ todo' = todo \ {c}
    /\ UNCHANGED <<windowed, bare, shared, wmctrl, pstree, pgrep, cwd_counts, apc, notDet>>

\* active_detector.py:232: `if not active_uuids`
FallbackRuns(uuids) == uuids = {}

\* active_detector.py:10-37 and 231-233: the window tier has marked nothing;
\* pgrep lists the processes and their working directories are read.
GetCwds ==
    /\ apc = "tier1"
    /\ todo = {}
    /\ FallbackRuns(active_uuids)
    /\ \E g \in ToolOutcomes :
          /\ pgrep' = g
          /\ IF Escapes(g)
             THEN apc' = "raised" /\ UNCHANGED todo
             ELSE /\ todo' = IF g = "ok"
                             THEN {c \in LiveCwds : windowed[c] + bare[c] > 0}
                             ELSE {}
                  /\ apc' = "tier2"
    /\ UNCHANGED <<windowed, bare, shared, wmctrl, pstree, cwd_counts, active_uuids, notDet>>

\* active_detector.py:234-241: one pass of the loop over active_cwds.
Tier2Step(c) ==
    /\ apc = "tier2"
    /\ c \in todo
    /\ LET dir == find_project_dir(ProjectNames, Chars(c))
       IN  active_uuids' =
               IF dir.found
               THEN active_uuids \cup Uuids(Largest(get_sessions_in_project(dir.name)))
               ELSE active_uuids
    /\ todo' = todo \ {c}
    /\ UNCHANGED <<windowed, bare, shared, wmctrl, pstree, pgrep, cwd_counts, apc, notDet>>

\* active_detector.py:243
ReturnActive ==
    /\ apc \in {"tier1", "tier2"}
    /\ todo = {}
    /\ apc = "tier1" => ~FallbackRuns(active_uuids)
    /\ apc' = "done"
    /\ UNCHANGED <<windowed, bare, shared, wmctrl, pstree, pgrep, cwd_counts, todo, active_uuids, notDet>>

\* The record files of the liveness runs: the records of one project that
\* have a working directory and a preview and are of the minimum size or more.
ActiveChoices(i) ==
    {f \in FileChoices(i) :
        /\ f.project = "home-user-proj"
        /\ f.cwd # "" /\ f.first_message # "" /\ f.size >= MIN_SIZE /\ ~f.nonobject}

\* The record files are on disk, load_sessions is about to scan them and the
\* detection has not begun.
ActiveStart ==
    /\ \E n \in 0..MaxFiles :
          disk \in {d \in [1..n -> UNION {ActiveChoices(i) : i \in Slots}] :
                       \A i \in 1..n : d[i] \in ActiveChoices(i)}
    /\ scanned = {}
    /\ curProject = ""
    /\ all_sessions = << >>
    /\ by_path = << >>
    /\ dedupAt = 1
    /\ lpc = "scan"
    /\ wmctrl = "none"
    /\ pstree = "none"
    /\ pgrep = "none"
    /\ cwd_counts = << >>
    /\ todo = {}
    /\ active_uuids = {}
    /\ apc = "start"
    /\ SumIdle
    /\ PathIdle
    /\ PerIdle
    /\ AppIdle
    /\ DtlIdle
    /\ UiIdle

\* Every marked window belongs to a terminal process of its own.
InitActive ==
    /\ ActiveStart
    /\ windowed \in [LiveCwds -> 0..MaxProcs]
    /\ bare \in [LiveCwds -> 0..1]
    /\ shared = {}

NextActive ==
    \/ \E i \in Slots : ScanFile(i)
    \/ EndScan
    \/ DedupStep
    \/ ReturnSessions
    \/ GetWindows
    \/ \E c \in LiveCwds : Tier1Step(c)
    \/ GetCwds
    \/ \E c \in LiveCwds : Tier2Step(c)
    \/ ReturnActive

SpecActive == InitActive /\ [][NextActive]_vars

\* SpecWindows: every live process runs in a marked window, and a terminal
\* process may own two marked windows (one terminal server for all windows).
InitWindows ==
    /\ ActiveStart
    /\ windowed \in [LiveCwds -> 0..MaxProcs]
    /\ bare = [c \in LiveCwds |-> 0]
    /\ shared \in SUBSET {c \in LiveCwds : windowed[c] > 0}

SpecWindows == InitWindows /\ [][NextActive]_vars

----------------------------------------------------------------------------
(* SpecPeriods: reconstruct_activity on the evidence collected for one      *)
(* session.  Times are minutes; an item of evidence is a time and a label,  *)
(* the label telling the place of the item in the collected list.           *)

EvidenceTimes == {0, 5, 35, 40, 41, 71}

Item(t, k) == [ts |-> t, msg |-> "m" \o ToString(k)]

\* The lists of evidence: the items in the order in which history, debug log
\* and record file gave them (activity.py:103-116).
Evidence ==
    UNION { {[k \in 1..n |-> Item(times[k], k)] : times \in [1..n -> EvidenceTimes]} :
            n \in 0..MaxItems }

RECURSIVE InsertSorted(_, _)
\* The item goes behind the items that are not later than it.
InsertSorted(sorted, item) ==
    IF sorted = << >> THEN <<item>>
    ELSE IF sorted[Len(sorted)].ts <= item.ts THEN Append(sorted, item)
    ELSE Append(InsertSorted(SubSeq(sorted, 1, Len(sorted) - 1), item), sorted[Len(sorted)])

RECURSIVE SortByTime(_)
\* activity.py:128: timestamps.sort(key=lambda x: x[0]), a stable sort.
SortByTime(items) ==
    IF items = << >> THEN << >>
    ELSE InsertSorted(SortByTime(SubSeq(items, 1, Len(items) - 1)), items[Len(items)])

\* activity.py:17-23
ActivityPeriod(start, end, messages) ==
    [start |-> start, end |-> end, message_count |-> Len(messages),
     first_message |-> IF messages # << >> THEN messages[1] ELSE ""]

\* A variant that also splits at a gap of exactly the threshold.
GapAtLeast(gap) == gap >= GAP_THRESHOLD

\* activity.py:234
GapExceeds(gap) == gap > GAP_THRESHOLD

\* activity.py:26-27
duration(p) == p.end - p.start

RECURSIVE SumDurations(_)
SumDurations(ps) ==
    IF ps = << >> THEN 0 ELSE duration(Head(ps)) + SumDurations(Tail(ps))

\* A variant that takes the time from the first to the last activity.
WallClockSpan(tl) ==
    IF tl.first_activity # << >> THEN tl.last_activity[1] - tl.first_activity[1] ELSE 0

\* activity.py:61-64
total_duration(tl) == SumDurations(tl.periods)

\* activity.py:66-71: None ( << >> ) without a first and a last activity.
span(tl) ==
    IF tl.first_activity # << >> /\ tl.last_activity # << >>
    THEN <<tl.last_activity[1] - tl.first_activity[1]>>
    ELSE << >>

\* activity.py:118-128: without evidence the empty timeline is returned, else
\* the evidence is sorted by time.
SortEvidence ==
    /\ gpc = "start"
    /\ IF timestamps = << >>
       THEN /\ timeline' = <<[periods |-> << >>, total_messages |-> 0,
                             first_activity |-> << >>, last_activity |-> << >>]>>
            /\ gpc' = "built"
            /\ UNCHANGED timestamps
       ELSE /\ timestamps' = SortByTime(timestamps)
            /\ gpc' = "sorted"
            /\ UNCHANGED timeline
    /\ UNCHANGED <<periods, period_start, period_end, period_messages, gidx, shown, notPer>>

\* activity.py:223-229
GroupBegin ==
    /\ gpc = "sorted"
    /\ periods' = << >>
    /\ period_start' = timestamps[1].ts
    /\ period_end' = timestamps[1].ts
    /\ period_messages' = <<timestamps[1].msg>>
    /\ gidx' = 2
    /\ gpc' = "loop"
    /\ UNCHANGED <<timestamps, timeline, shown, notPer>>

\* activity.py:231-249: one pass of the loop over timestamps[1:].
GroupStep ==
    /\ gpc = "loop"
    /\ gidx <= Len(timestamps)
    /\ LET ts == timestamps[gidx].ts
           msg == timestamps[gidx].msg
           gap == ts - period_end
       IN  IF GapExceeds(gap)
           THEN /\ periods' = Append(periods,
                        ActivityPeriod(period_start, period_end, period_messages))
                /\ period_start' = ts
                /\ period_end' = ts
                /\ period_messages' = <<msg>>
           ELSE /\ period_end' = ts
                /\ period_messages' = Append(period_messages, msg)
                /\ UNCHANGED <<periods, period_start>>
    /\ gidx' = gidx + 1
    /\ UNCHANGED <<timestamps, timeline, shown, gpc, notPer>>

\* activity.py:251-259 and 133-139: the last period is closed and the
\* timeline is built.
GroupEnd ==
    /\ gpc = "loop"
    /\ gidx > Len(timestamps)
    /\ periods' = Append(periods, ActivityPeriod(period_start, period_end, period_messages))
    /\ timeline' = <<[periods |-> periods', total_messages |-> Len(timestamps),
                      first_activity |-> <<timestamps[1].ts>>,
                      last_activity |-> <<timestamps[Len(timestamps)].ts>>]>>
    /\ gpc' = "built"
    /\ UNCHANGED <<timestamps, period_start, period_end, period_messages, gidx, shown, notPer>>

\* activity.py:262-278, 327: the display reads the aggregates of the timeline.
FormatTimeline ==
    /\ gpc = "built"
    /\ shown' = <<[total_duration |-> total_duration(timeline[1]), span |-> span(timeline[1])]>>
    /\ gpc' = "done"
    /\ UNCHANGED <<timestamps, periods, period_start, period_end, period_messages, gidx,
                   timeline, notPer>>

InitPeriods ==
    /\ timestamps \in Evidence
    /\ periods = << >>
    /\ period_start = 0
    /\ period_end = 0
    /\ period_messages = << >>
    /\ gidx = 1
    /\ timeline = << >>
    /\ shown = << >>
    /\ gpc = "start"
    /\ SumIdle
    /\ LoadIdle
    /\ PathIdle
    /\ DetIdle
    /\ AppIdle
    /\ DtlIdle
    /\ UiIdle

NextPeriods ==
    \/ SortEvidence
    \/ GroupBegin
    \/ GroupStep
    \/ GroupEnd
    \/ FormatTimeline

SpecPeriods == InitPeriods /\ [][NextPeriods]_vars

----------------------------------------------------------------------------
(* SpecApp: the application after App.run has loaded the sessions and      *)
(* started its two daemon threads (app.py:112-124): the background         *)
(* summarizer, the liveness watcher, and the main thread, which reloads,   *)
(* regenerates a summary and quits.  A Session object has an identity of   *)
(* its own: `sessions` maps object names to objects, and a reload makes    *)
(* new objects for the same record files.  SpecApp is the summarizer next  *)
(* to the main thread, SpecThreads the summarize tasks next to the watcher *)
(* (whose sleep runs out in one step), SpecWatch the watcher by the second.*)

MaxCommands == 1           \* commands (reload, regenerate) the user gives in one run
MaxRegens == 2             \* regenerate requests where they are the only command

WATCH_INTERVAL == 5        \* app.py:169, in seconds

AppTasks == Tasks \cup {"regen"}

AppUuids == <<"u1", "u2">>

Obj(k) == "o" \o ToString(k)

\* load_sessions (app.py:112, 274): one new Session object per record file,
\* named from `base` on, and the list of them.
LoadedList(base) == [i \in 1..Len(AppUuids) |-> Obj(base + i)]

LoadedObjects(base) ==
    [o \in {Obj(base + i) : i \in 1..Len(AppUuids)} |->
        _load_session_file(files[AppUuids[CHOOSE i \in 1..Len(AppUuids) : Obj(base + i) = o]])]

\* A variant that takes every session.
AnySession(s) == TRUE

\* app.py:153: `not s.last_summary`
LacksSummary(s) == s.last_summary = << >>

\* app.py:158, 166, 170: Event.is_set()
StopRequested(flag) == flag

\* A variant that does not sleep.
NoSleep(interval) == 0

\* app.py:169: time.sleep(5) lasts at least the interval.
SleepFor(interval) == interval

\* A variant that marks and never unmarks.
RefreshedSticky(s, active) == [s EXCEPT !.is_active = @ \/ s.uuid \in active]

\* A variant that also drops the summary.
RefreshedAndCleared(s, active) ==
    [s EXCEPT !.is_active = s.uuid \in active, !.last_summary = << >>]

\* active_detector.py:254-255: session.is_active = session.uuid in active_uuids
Refreshed(s, active) == [s EXCEPT !.is_active = s.uuid \in active]

\* A variant that leaves the entry in place.
KeepItem(c, key) == c

\* `del cache[key]`
DelItem(c, key) == [c EXCEPT !.map = [k \in DOMAIN c.map \ {key} |-> c.map[k]]]

Members(list) == {list[i] : i \in 1..Len(list)}

\* The sets get_active_session_uuids returns in the model.
ActiveOutcomes == {{}, {"u1"}}

\* app.py:149-156: the background summarizer builds its list.
BgStart ==
    /\ bpc = "unstarted"
    /\ to_summarize' = SelectSeq(listing, LAMBDA o : LacksSummary(sessions[o]))
    /\ atBgStart' = [i \in 1..Len(listing) |->
                        [obj |-> listing[i], last_summary |-> sessions[listing[i]].last_summary]]
    /\ bidx' = 1
    /\ bpc' = "loop"
    /\ UNCHANGED <<sumVars, notApp, listing, stop_summarizer, stop_active_watcher, running,
                   started, reloads, regens, wpc, sleepLeft, sinceEnd, passLen, passList,
                   lastPass, inPass>>

\* app.py:157-163: one turn of the loop: the flag is read, then
\* summarize_single is called on the next session of the list.
BgNext ==
    /\ bpc = "loop"
    /\ pc["caller"] = "idle"
    /\ IF bidx > Len(to_summarize) \/ StopRequested(stop_summarizer)
       THEN /\ bpc' = "finished"
            /\ UNCHANGED <<pc, arg, summary, cache, genLog, bidx, started>>
       ELSE /\ pc' = [pc EXCEPT !["caller"] = "start"]
            /\ arg' = [arg EXCEPT !["caller"] = to_summarize[bidx]]
            /\ summary' = [summary EXCEPT !["caller"] = << >>]
            /\ cache' = [cache EXCEPT !["caller"] = EmptyCache]
            /\ genLog' = << >>
            /\ started' = Append(started,
                   [obj |-> to_summarize[bidx], stop |-> stop_summarizer,
                    reloaded |-> reloads > 0])
            /\ bidx' = bidx + 1
            /\ UNCHANGED bpc
    /\ UNCHANGED <<files, sessions, cacheFile, atCall, crashed, notApp, listing, to_summarize,
                   stop_summarizer, stop_active_watcher, running, atBgStart, reloads, regens,
                   wpc, sleepLeft, sinceEnd, passLen, passList, lastPass, inPass>>

\* app.py:272-275: load_sessions makes new Session objects and set_sessions
\* replaces the view's list with them.
_reload_sessions ==
    /\ running
    /\ reloads + regens < MaxCommands
    /\ LET base == Cardinality(DOMAIN sessions)
       IN  /\ sessions' = LoadedObjects(base) @@ sessions
           /\ listing' = LoadedList(base)
    /\ reloads' = reloads + 1
    /\ UNCHANGED <<files, cacheFile, pc, arg, cache, summary, genLog, atCall, crashed, notApp,
                   to_summarize, bidx, bpc, stop_summarizer, stop_active_watcher, running,
                   started, atBgStart, regens, wpc, sleepLeft, sinceEnd, passLen, passList,
                   lastPass, inPass>>

\* app.py:277-294: the entry of the current session leaves the persisted
\* cache, its summary is cleared and a thread is started that calls
\* summarize_single on it.
\* The new thread is `t`.
Regenerate(o, t) ==
    /\ running
    /\ pc[t] = "idle"
    /\ o \in Members(listing)
    /\ cacheFile' = IF KeyIn(load_cache, sessions[o].uuid)
                    THEN DelItem(load_cache, sessions[o].uuid)
                    ELSE cacheFile
    /\ SetSummary(o, << >>)
    /\ pc' = [pc EXCEPT ![t] = "start"]
    /\ arg' = [arg EXCEPT ![t] = o]
    /\ summary' = [summary EXCEPT ![t] = << >>]
    /\ cache' = [cache EXCEPT ![t] = EmptyCache]
    /\ regens' = regens + 1
    /\ genLog' = << >>
    /\ UNCHANGED <<files, atCall, crashed, notApp, listing, to_summarize, bidx, bpc,
                   stop_summarizer, stop_active_watcher, running, started, atBgStart, reloads,
                   wpc, sleepLeft, sinceEnd, passLen, passList, lastPass, inPass>>

\* One regenerate at a time, within the budget of commands.
_regenerate_summary(o) ==
    /\ reloads + regens < MaxCommands
    /\ Regenerate(o, "regen")

\* The threads of manual regenerates, where two may run at a time.
RegenTasks == {"regen", "regen2"}

\* threading.Thread(...).start() makes a new thread: the first name free.
NewThread == IF pc["regen"] = "idle" THEN "regen" ELSE "regen2"

\* Regenerate requests that do not wait for one another.
RegenerateRequest(o) ==
    /\ regens < MaxRegens
    /\ Regenerate(o, NewThread)

\* app.py:126-135: the main loop ends and both stop flags are set.
Quit ==
    /\ running
    /\ running' = FALSE
    /\ stop_summarizer' = TRUE
    /\ stop_active_watcher' = TRUE
    /\ UNCHANGED <<sumVars, notApp, listing, to_summarize, bidx, bpc, started, atBgStart,
                   reloads, regens, wpc, sleepLeft, sinceEnd, passLen, passList, lastPass,
                   inPass>>

\* app.py:168-169: the loop's condition, then the sleep begins.
WatcherLoop ==
    /\ wpc = "loop"
    /\ IF StopRequested(stop_active_watcher)
       THEN /\ wpc' = "finished"
            /\ UNCHANGED sleepLeft
       ELSE /\ wpc' = "sleeping"
            /\ sleepLeft' = SleepFor(WATCH_INTERVAL)
    /\ UNCHANGED <<sumVars, notApp, listing, to_summarize, bidx, bpc, stop_summarizer,
                   stop_active_watcher, running, started, atBgStart, reloads, regens,
                   sinceEnd, passLen, passList, lastPass, inPass>>

\* app.py:170-173: the sleep is over; the flag is read again and a pass
\* begins on the list the view holds now.
WatcherWake ==
    /\ wpc = "sleeping"
    /\ sleepLeft = 0
    /\ IF StopRequested(stop_active_watcher)
       THEN /\ wpc' = "finished"
            /\ UNCHANGED <<passList, lastPass, passLen, inPass>>
       ELSE /\ wpc' = "pass"
            /\ passList' = listing
            /\ lastPass' = <<[gap |-> sinceEnd, stop |-> stop_active_watcher,
                              prevLen |-> passLen]>>
            /\ passLen' = 0
            /\ inPass' = inPass + 1
    /\ UNCHANGED <<sumVars, notApp, listing, to_summarize, bidx, bpc, stop_summarizer,
                   stop_active_watcher, running, started, atBgStart, reloads, regens,
                   sleepLeft, sinceEnd>>

\* active_detector.py:246-255: refresh_active_status ends: whatever set
\* get_active_session_uuids returned, every session of the list gets its flag.
WatcherPassEnd ==
    /\ wpc = "pass"
    /\ \E active \in ActiveOutcomes :
          /\ active_uuids' = active
          /\ sessions' = [o \in DOMAIN sessions |->
                          IF o \in Members(passList) THEN Refreshed(sessions[o], active)
                          ELSE sessions[o]]
    /\ wpc' = "loop"
    /\ sinceEnd' = 0
    /\ inPass' = inPass - 1
    /\ passList' = << >>
    /\ UNCHANGED <<files, cacheFile, pc, arg, cache, summary, genLog, atCall, crashed,
                   loadVars, pathVars, perVars, dtlVars, uiVars, windowed, bare, shared,
                   wmctrl, pstree, pgrep,
                   cwd_counts, todo, apc,
                   listing, to_summarize, bidx, bpc, stop_summarizer, stop_active_watcher,
                   running, started, atBgStart, reloads, regens, sleepLeft, passLen,
                   lastPass>>

\* A second passes while the watcher sleeps or works.
Tick ==
    /\ wpc \in {"sleeping", "pass"}
    /\ sleepLeft' = IF sleepLeft > 0 THEN sleepLeft - 1 ELSE 0
    /\ sinceEnd' = Min(sinceEnd + 1, WATCH_INTERVAL)
    /\ passLen' = IF wpc = "pass" THEN Min(passLen + 1, WATCH_INTERVAL + 1) ELSE passLen
    /\ <<sleepLeft', sinceEnd', passLen'>> # <<sleepLeft, sinceEnd, passLen>>
    /\ UNCHANGED <<sumVars, notApp, listing, to_summarize, bidx, bpc, stop_summarizer,
                   stop_active_watcher, running, started, atBgStart, reloads, regens, wpc,
                   passList, lastPass, inPass>>

\* The watcher's sleep runs out.
Elapse ==
    /\ wpc = "sleeping"
    /\ sleepLeft > 0
    /\ sleepLeft' = 0
    /\ sinceEnd' = WATCH_INTERVAL
    /\ UNCHANGED <<sumVars, notApp, listing, to_summarize, bidx, bpc, stop_summarizer,
                   stop_active_watcher, running, started, atBgStart, reloads, regens, wpc,
                   passLen, passList, lastPass, inPass>>

\* A title an earlier run left in the persisted cache.
CachedEntry(f) ==
    NewEntry(ContentHash(_load_session_file(f)), f.size, LegacyTitle)

AppInit(tasks) ==
    /\ files = [u \in Members(AppUuids) |->
                   RecordFile(u, IF u = "u1" THEN <<"a">> ELSE <<"b">>)]
    /\ \E cached \in {{}, {"u1"}}, active \in {{}} :
          /\ cacheFile = [kind |-> "dict", map |-> [u \in cached |-> CachedEntry(files[u])]]
          /\ sessions = [o \in DOMAIN LoadedObjects(0) |->
                [Refreshed(LoadedObjects(0)[o], active) EXCEPT
                    !.last_summary = CachedSummary(cacheFile, LoadedObjects(0)[o])]]
    /\ atCall = [cache |-> cacheFile, session |-> << >>]
    /\ pc = [t \in tasks |-> "idle"]
    /\ arg = [t \in tasks |-> "o1"]
    /\ cache = [t \in tasks |-> EmptyCache]
    /\ summary = [t \in tasks |-> << >>]
    /\ genLog = << >>
    /\ crashed = FALSE
    /\ listing = LoadedList(0)
    /\ to_summarize = << >>
    /\ bidx = 1
    /\ bpc = "unstarted"
    /\ stop_summarizer = FALSE
    /\ stop_active_watcher = FALSE
    /\ running = TRUE
    /\ started = << >>
    /\ atBgStart = << >>
    /\ reloads = 0
    /\ regens = 0
    /\ wpc = "loop"
    /\ sleepLeft = 0
    /\ sinceEnd = 0
    /\ passLen = 0
    /\ passList = << >>
    /\ lastPass = << >>
    /\ inPass = 0
    /\ LoadIdle
    /\ PathIdle
    /\ DetIdle
    /\ PerIdle
    /\ DtlIdle
    /\ UiIdle

InitApp == AppInit(AppTasks)

NextApp ==
    \/ BgStart
    \/ BgNext
    \/ \E t \in AppTasks : SummarizeStep(t)
    \/ _reload_sessions
    \/ \E o \in DOMAIN sessions : _regenerate_summary(o)
    \/ Quit

SpecApp == InitApp /\ [][NextApp]_vars

\* The summarize tasks next to the liveness watcher.
NextThreads ==
    \/ BgStart
    \/ BgNext
    \/ \E t \in AppTasks : SummarizeStep(t)
    \/ \E o \in DOMAIN sessions : _regenerate_summary(o)
    \/ WatcherLoop
    \/ Elapse
    \/ WatcherWake
    \/ WatcherPassEnd

SpecThreads == InitApp /\ [][NextThreads]_vars

NextWatch ==
    \/ WatcherLoop
    \/ WatcherWake
    \/ WatcherPassEnd
    \/ Tick
    \/ _reload_sessions
    \/ Quit

SpecWatch == InitApp /\ [][NextWatch]_vars

\* Manual regenerates alone, each on a thread of its own.
InitRegen == AppInit(Tasks \cup RegenTasks)

NextRegen ==
    \/ \E o \in DOMAIN sessions : RegenerateRequest(o)
    \/ \E t \in RegenTasks : SummarizeStep(t)
    \/ Quit

SpecRegen == InitRegen /\ [][NextRegen]_vars

----------------------------------------------------------------------------
(* SpecDetail: the detail view.  Opening a session makes a new DetailState *)
(* and, when the log cache has no entry for it, starts a thread that       *)
(* generates the temporal log (detail.py:99-105, 234-258, 283-341).  The   *)
(* thread reaches the state through self.state each time it uses it.       *)

MaxOpens == 2              \* sessions opened in the detail view in one run

\* detail.py:242: cache_key
LogKey(s) == <<s.uuid, ContentHash(s)>>

\* The lines the generator returns for a session's excerpts.
LogOf(s) == <<"[Initial]", s.uuid>>

\* detail.py:340
UnableLog == <<"[Unable to generate log]">>

\* detail.py:43-51, 101: a new DetailState; `by` is the thread that last
\* wrote its log and flag (0: the main thread).
DetailState(o) ==
    [session |-> o, temporal_log |-> << >>, log_generating |-> FALSE, by |-> 0]

\* app.py:203-209, detail.py:99-105 and 234-258: the user opens the session
\* under the cursor.
OpenDetail(o) ==
    /\ mode = "list"
    /\ running
    /\ o \in Members(listing)
    /\ Len(detail_states) < MaxOpens
    /\ LET d == Len(detail_states) + 1
           key == LogKey(sessions[o])
       IN  /\ detail_state' = d
           /\ IF key \in DOMAIN log_cache
              THEN /\ detail_states' = Append(detail_states,
                          [DetailState(o) EXCEPT !.temporal_log = log_cache[key]])
                   /\ UNCHANGED log_threads
              ELSE /\ detail_states' = Append(detail_states,
                          [DetailState(o) EXCEPT !.log_generating = TRUE])
                   /\ log_threads' = Append(log_threads,
                          [pc |-> "spawned", cache_key |-> key, session |-> "",
                           home |-> d, lines |-> << >>])
    /\ mode' = "detail"
    /\ UNCHANGED <<sumVars, notDtl, log_cache>>

\* app.py:224-227: back to the list; the detail view keeps its state.
BackToList ==
    /\ mode = "detail"
    /\ mode' = "list"
    /\ UNCHANGED <<sumVars, notDtl, detail_state, detail_states, log_cache, log_threads>>

\* detail.py:285-289: the thread starts and reads self.state.session.
GenBegin(i) ==
    /\ log_threads[i].pc = "spawned"
    /\ log_threads' = [log_threads EXCEPT
           ![i].pc = "running",
           ![i].session = detail_states[detail_state].session]
    /\ UNCHANGED <<sumVars, notDtl, mode, detail_state, detail_states, log_cache>>

\* detail.py:307-325: the generator returns lines, or nothing.
GenRun(i) ==
    /\ log_threads[i].pc = "running"
    /\ \E ok \in BOOLEAN :
          log_threads' = [log_threads EXCEPT
              ![i].pc = "ran",
              ![i].lines = IF ok THEN LogOf(sessions[log_threads[i].session]) ELSE << >>]
    /\ UNCHANGED <<sumVars, notDtl, mode, detail_state, detail_states, log_cache>>

\* detail.py:327-341: the thread writes the log and clears the flag in
\* self.state, and stores the lines it got.
GenWrite(i) ==
    /\ log_threads[i].pc = "ran"
    /\ LET lines == log_threads[i].lines
       IN  /\ detail_states' = [detail_states EXCEPT ![detail_state] =
                  [@ EXCEPT !.temporal_log = IF lines # << >> THEN lines ELSE UnableLog,
                            !.log_generating = FALSE,
                            !.by = i]]
           /\ log_cache' = IF lines # << >>
                           THEN (log_threads[i].cache_key :> lines) @@ log_cache
                           ELSE log_cache
    /\ log_threads' = [log_threads EXCEPT ![i].pc = "done"]
    /\ UNCHANGED <<sumVars, notDtl, mode, detail_state>>

NextDetail ==
    \/ \E o \in DOMAIN sessions : OpenDetail(o)
    \/ BackToList
    \/ \E i \in DOMAIN log_threads : GenBegin(i)
    \/ \E i \in DOMAIN log_threads : GenRun(i)
    \/ \E i \in DOMAIN log_threads : GenWrite(i)

SpecDetail == InitApp /\ [][NextDetail]_vars

----------------------------------------------------------------------------
(* The session list (SpecList): ListState of ui.py and the keys that move  *)
(* in it.  `listing` is ListState.sessions, the list the view was given by *)
(* set_sessions; `filtered`, `cursor`, `scroll_offset`, `sort_mode`,       *)
(* `category_filter` and `page_size` are the fields of the same name.      *)

MaxRows == 3               \* sessions given to the list view
MaxHeight == 10            \* lines of the terminal

Categories == {"personal", "professional"}

\* Terminal heights of a run; ui.py:157, 164 take max(1, height - 8) of them.
Heights == (MaxHeight - 2)..MaxHeight

\* ui.py:157, 164
PageSizeFor(height) == Max(1, height - 8)

\* A loaded session of the list: the fields the list view reads
\* (session.py:16-31).  Later files are smaller or larger without order.
Row(i, cat) ==
    [uuid |-> "u" \o ToString(i), category |-> cat, mtime |-> i,
     context_size |-> MIN_SIZE + ((2 * i) % 3), is_active |-> FALSE]

\* ui.py:61, 63: the key the list is sorted by.
SortKey(o, by) == IF by = "mtime" THEN sessions[o].mtime ELSE sessions[o].context_size

RECURSIVE InsertDesc(_, _, _)
\* The row goes behind the rows whose key is not smaller than its own.
InsertDesc(sorted, o, by) ==
    IF sorted = << >> THEN <<o>>
    ELSE IF SortKey(sorted[Len(sorted)], by) >= SortKey(o, by) THEN Append(sorted, o)
    ELSE Append(InsertDesc(SubSeq(sorted, 1, Len(sorted) - 1), o, by), sorted[Len(sorted)])

RECURSIVE SortDesc(_, _)
\* list.sort(key=..., reverse=True): stable, largest key first.
SortDesc(rows, by) ==
    IF rows = << >> THEN << >>
    ELSE InsertDesc(SortDesc(SubSeq(rows, 1, Len(rows) - 1), by), rows[Len(rows)], by)

\* ui.py:53-58: the rows of the chosen category, in the order of the list.
FilterRows(rows, cat) ==
    IF cat = "both" THEN rows
    ELSE SelectSeq(rows, LAMBDA o : sessions[o].category = cat)

\* ui.py:53-63: the filtered list, sorted.
Filtered(rows, cat, by) == SortDesc(FilterRows(rows, cat), by)

\* ui.py:65-66: the cursor after apply_filter.
ClampCursor(c, rows) == IF c >= Len(rows) THEN Max(0, Len(rows) - 1) ELSE c

\* ui.py:73-78: the scroll offset after _adjust_scroll.
_adjust_scroll(c, offset, page) ==
    IF c < offset THEN c
    ELSE IF c >= offset + page THEN c - page + 1
    ELSE offset

\* ui.py:50-66: apply_filter under the given sort mode and category filter.
\* The scroll offset is not touched.
apply_filter(by, cat) ==
    /\ filtered' = Filtered(listing, cat, by)
    /\ cursor' = ClampCursor(cursor, Filtered(listing, cat, by))
    /\ UNCHANGED scroll_offset

\* ui.py:68-71, reached from the keys j, k, PgUp, PgDn, Ctrl+U, Ctrl+D
\* (ui.py:602-609).
move_cursor(delta) ==
    /\ mode = "list"
    /\ cursor' = Max(0, Min(Len(filtered) - 1, cursor + delta))
    /\ scroll_offset' = _adjust_scroll(cursor', scroll_offset, page_size)
    /\ UNCHANGED <<filtered, sort_mode, category_filter, page_size>>
    /\ UNCHANGED <<sumVars, notUi>>

\* ui.py:602-609: the steps the movement keys ask for.
Deltas == {1, -1, page_size, -page_size}

\* ui.py:610-612: g or Home.
KeyTop ==
    /\ mode = "list"
    /\ cursor' = 0
    /\ scroll_offset' = 0
    /\ UNCHANGED <<filtered, sort_mode, category_filter, page_size>>
    /\ UNCHANGED <<sumVars, notUi>>

\* ui.py:613-615: G or End.
KeyBottom ==
    /\ mode = "list"
    /\ cursor' = Len(filtered) - 1
    /\ scroll_offset' = _adjust_scroll(cursor', scroll_offset, page_size)
    /\ UNCHANGED <<filtered, sort_mode, category_filter, page_size>>
    /\ UNCHANGED <<sumVars, notUi>>

\* ui.py:80-86, key s (ui.py:626-627).
toggle_sort ==
    /\ mode = "list"
    /\ sort_mode' = IF sort_mode = "mtime" THEN "context" ELSE "mtime"
    /\ apply_filter(sort_mode', category_filter)
    /\ UNCHANGED <<category_filter, page_size>>
    /\ UNCHANGED <<sumVars, notUi>>

\* ui.py:88-96, key c (ui.py:628-629).
cycle_category ==
    /\ mode = "list"
    /\ category_filter' = IF category_filter = "both" THEN "personal"
                          ELSE IF category_filter = "personal" THEN "professional"
                          ELSE "both"
    /\ apply_filter(sort_mode, category_filter')
    /\ UNCHANGED <<sort_mode, page_size>>
    /\ UNCHANGED <<sumVars, notUi>>

\* ui.py:161-165, called on a resize of the terminal (app.py:238-242).
update_page_size(height) ==
    /\ mode = "list"
    /\ page_size' = PageSizeFor(height)
    /\ scroll_offset' = _adjust_scroll(cursor, scroll_offset, page_size')
    /\ UNCHANGED <<filtered, cursor, sort_mode, category_filter>>
    /\ UNCHANGED <<sumVars, notUi>>

\* ui.py:151-159: set_sessions on a list of loaded sessions, in a terminal
\* of some height.
InitList ==
    /\ \E n \in 0..MaxRows, height \in Heights :
         \E cats \in [1..n -> Categories] :
            /\ sessions = [o \in {Obj(i) : i \in 1..n} |->
                              Row(CHOOSE i \in 1..n : Obj(i) = o,
                                  cats[CHOOSE i \in 1..n : Obj(i) = o])]
            /\ listing = [i \in 1..n |-> Obj(i)]
            /\ page_size = PageSizeFor(height)
    /\ filtered = Filtered(listing, "both", "mtime")
    /\ cursor = 0
    /\ scroll_offset = 0
    /\ sort_mode = "mtime"
    /\ category_filter = "both"
    /\ SumQuiet /\ AppStopped
    /\ LoadIdle /\ PathIdle /\ DetIdle /\ PerIdle /\ DtlIdle

NextList ==
    \/ \E delta \in Deltas : move_cursor(delta)
    \/ KeyTop
    \/ KeyBottom
    \/ toggle_sort
    \/ cycle_category
    \/ \E height \in Heights : update_page_size(height)

SpecList == InitList /\ [][NextList]_vars

----------------------------------------------------------------------------
(* Claims about summarize_single (SpecSum).  They are read in the state    *)
(* in which the call has finished and not yet returned, against the        *)
(* persisted cache and the Session as they were when the call was made.    *)

Caller == "caller"
Finished == pc[Caller] = "done"
Sess0 == atCall.session
Cache0 == atCall.cache
HasEntry0 == Cache0.kind = "dict" /\ Sess0.uuid \in DOMAIN Cache0.map
Entry0 == Cache0.map[Sess0.uuid]
Structured0 == HasEntry0 /\ Entry0.shape = "dict"
Fingerprint0 == _stable_hash(Sess0.context_start \o Sess0.context_end)
Stale0 == Structured0 /\ Entry0.hash # Fingerprint0
Growth0 == Sess0.context_size - Entry0.size
HasExcerpt0 == Sess0.context_start # << >> \/ Sess0.context_end # << >>
Shown == sessions[Sess0.uuid].last_summary
GeneratorInvoked == genLog # << >>
\* The generator's output as text: its lines, a newline between them.
RECURSIVE JoinLines(_)
JoinLines(lines) ==
    IF lines = << >> THEN << >>
    ELSE IF Len(lines) = 1 THEN lines[1]
    ELSE lines[1] \o <<"\n">> \o JoinLines(Tail(lines))
Generated == JoinLines(genLog[1].raw)
Extracted == _extract_title(genLog[1].raw)

\* C1 (as claimed): for a structured entry whose fingerprint differs, growth
\* below 10000 shows the cached text and calls no generator, growth of 10000
\* or more calls the generator.
C1_DeltaPolicy_AsClaimed ==
    (Finished /\ Stale0) =>
        /\ Growth0 < 10000 => (Shown = Entry0.summary /\ ~GeneratorInvoked)
        /\ Growth0 >= 10000 => GeneratorInvoked

\* C1 (amended): the same, for a session with a non-empty start or end
\* excerpt; with both excerpts empty the call blanks the summary and calls no
\* generator, whatever the growth.
C1_DeltaPolicy ==
    (Finished /\ Stale0 /\ HasExcerpt0) =>
        /\ Growth0 < 10000 => (Shown = Entry0.summary /\ ~GeneratorInvoked)
        /\ Growth0 >= 10000 => GeneratorInvoked

\* C1 witness: a finished call on a stale entry with growth of exactly 9999,
\* which showed the cached text.
C1_Witness ==
    Finished /\ Stale0 /\ HasExcerpt0 /\ Growth0 = 9999 /\ Shown = Entry0.summary

\* C2: with a structured entry whose fingerprint equals the hash of the
\* current excerpts the cached text is shown, no generator is called and the
\* persisted cache is as it was.
C2_CacheHit ==
    (Finished /\ Structured0 /\ Entry0.hash = Fingerprint0) =>
        /\ Shown = Entry0.summary
        /\ ~GeneratorInvoked
        /\ cacheFile = Cache0

\* C2 witness: a finished call that hit an entry although the file had grown.
C2_Witness ==
    /\ Finished /\ Structured0 /\ Entry0.hash = Fingerprint0
    /\ Growth0 >= 10000 /\ Shown = Entry0.summary

DeltaIssued == Finished /\ Len(genLog) = 1 /\ genLog[1].template = "update"

\* C4 (as claimed): after a delta regeneration, a generator success overwrites
\* the entry with the new fingerprint, the current size and the new text and
\* shows the new text; a generator failure leaves the entry as it was and
\* shows the old text.
C4_DeltaOutcome_AsClaimed ==
    DeltaIssued =>
        /\ Generated # << >> =>
              /\ cacheFile = [Cache0 EXCEPT !.map = (Sess0.uuid :>
                     [shape |-> "dict", hash |-> Fingerprint0,
                      size |-> Sess0.context_size, summary |-> Extracted]) @@ @]
              /\ Shown = Extracted
        /\ Generated = << >> => (cacheFile = Cache0 /\ Shown = Entry0.summary)

\* C4 (amended): success is a non-empty extracted title; when the generator
\* fails or its output yields no title the entry is left as it was and the
\* old text is shown.
C4_DeltaOutcome ==
    DeltaIssued =>
        /\ Stale0 /\ Growth0 >= 10000
        /\ Extracted # << >> =>
              /\ cacheFile = [Cache0 EXCEPT !.map = (Sess0.uuid :>
                     [shape |-> "dict", hash |-> Fingerprint0,
                      size |-> Sess0.context_size, summary |-> Extracted]) @@ @]
              /\ Shown = Extracted
        /\ Extracted = << >> => (cacheFile = Cache0 /\ Shown = Entry0.summary)

\* C4 witness: a delta regeneration that replaced the cached text by another.
C4_Witness ==
    /\ DeltaIssued /\ Extracted # << >> /\ Extracted # Entry0.summary
    /\ cacheFile.map[Sess0.uuid].summary = Extracted
    /\ cacheFile.map[Sess0.uuid].size > Entry0.size

----------------------------------------------------------------------------
(* Claims about the persisted cache (SpecCache).                           *)

IsLegacy(c, u) == c.kind = "dict" /\ u \in DOMAIN c.map /\ c.map[u].shape = "str"
IsStructured(c, u) == c.kind = "dict" /\ u \in DOMAIN c.map /\ c.map[u].shape = "dict"

\* The legacy text of u has been read from the cache and is what u shows.
LegacySurfaced(u) == IsLegacy(cacheFile, u) /\ sessions[u].last_summary = cacheFile.map[u].summary

\* C5: reading a legacy plain-text entry shows its text as last_summary, and
\* once it is shown any save of the cache, by whatever task and for whatever
\* session, leaves the entry in the structured {fingerprint, size, text} shape.
C5_LegacyUpgrade ==
    /\ [][_load_cached_summaries =>
             \A u \in DOMAIN sessions :
                 (IsLegacy(cacheFile, u) /\ ~crashed') =>
                     sessions'[u].last_summary = cacheFile.map[u].summary]_vars
    /\ [][\A u \in DOMAIN sessions :
             (LegacySurfaced(u) /\ cacheFile' # cacheFile) => IsStructured(cacheFile', u)]_vars

\* C6: with a persisted cache that is corrupt, unreadable or not a mapping,
\* load_cache hands summarize_single the empty cache and no call raises.
C6_CorruptCacheTolerated ==
    \A t \in Tasks :
        /\ pc[t] # "raised"
        /\ (pc[t] = "loaded" /\ atCall.cache.kind # "dict") => cache[t] = EmptyCache

----------------------------------------------------------------------------
(* Claims about load_sessions (SpecLoad).  The files are described by the   *)
(* fields of `disk`, the sessions by the fields of the records returned.    *)

Loaded == lpc = "done"

\* The sessions load_sessions returns (session.py:160).
Result == {by_path[k] : k \in DOMAIN by_path}

Collected == {all_sessions[k] : k \in 1..Len(all_sessions)}

NamedAgent(f) == f.stem \in {"agent-s1", "agent-s2", "agent-s3", "agent-s4"}

KeyOfFile(f) == IF f.cwd # "" THEN f.cwd ELSE f.project

\* The four conditions on a record: name, size, working directory or
\* preview, preview.
MeetsConditions(f) ==
    /\ ~NamedAgent(f)
    /\ f.size >= 500
    /\ f.cwd # "" \/ f.first_message # ""
    /\ f.first_message # "Evaluate if this bash command is safe"

Malformed(f) == f.nonobject

Valid(f) == MeetsConditions(f) /\ ~Malformed(f)

FromFile(s, f) ==
    /\ s.uuid = f.stem
    /\ s.cwd = f.cwd
    /\ s.project_path = f.project
    /\ s.context_size = f.size
    /\ s.first_message = f.first_message

ValidFiles == {disk[i] : i \in {j \in DOMAIN disk : Valid(disk[j])}}

C9_Eligibility_AsClaimed ==
    Loaded =>
        \A i \in DOMAIN disk :
            (\E s \in Collected : s.uuid = disk[i].stem) <=> MeetsConditions(disk[i])

\* C9: a record takes part in the deduplication exactly if its file parses
\* and it meets the four conditions; a record that does not is not in the
\* result, and the session kept for the key of an eligible record comes from
\* an eligible record.
C9_Eligibility ==
    Loaded =>
        /\ \A i \in DOMAIN disk :
              (\E s \in Collected : s.uuid = disk[i].stem) <=> Valid(disk[i])
        /\ \A i \in DOMAIN disk :
              ~Valid(disk[i]) => \A s \in Result : s.uuid # disk[i].stem
        /\ \A f \in ValidFiles :
              /\ KeyOfFile(f) \in DOMAIN by_path
              /\ \E g \in ValidFiles : FromFile(by_path[KeyOfFile(f)], g)

\* A record of exactly 500 bytes is kept although a larger record of its key,
\* with the preview of a pre-flight evaluation, was read as well.
C9_Witness ==
    /\ Loaded
    /\ \E i, j \in DOMAIN disk :
          /\ disk[i].size = 500 /\ Valid(disk[i])
          /\ disk[j].size = 900 /\ ~MeetsConditions(disk[j]) /\ ~NamedAgent(disk[j])
          /\ KeyOfFile(disk[i]) = KeyOfFile(disk[j])
          /\ \E s \in Result : FromFile(s, disk[i])

----------------------------------------------------------------------------
(* Claims about find_project_dir (SpecPath).                                *)

Dash(name) == <<"-">> \o name

\* The order of the claim: the encoding, the encoding with a leading dash
\* and, when replacing the underscores changes the encoding, the same two
\* forms with the underscores replaced.
ClaimedOrder ==
    LET enc == cwd_to_project_path(cur_cwd)
        alt == [i \in 1..Len(enc) |-> IF enc[i] = "_" THEN "-" ELSE enc[i]]
    IN  IF alt # enc THEN <<enc, Dash(enc), alt, Dash(alt)>> ELSE <<enc, Dash(enc)>>

OnDisk(name) == name = << >> \/ name \in existing

\* C10: the candidates are probed in the fixed order; the resolution returns
\* the first of them that exists, having probed nothing after it, and None
\* when none of them exists, having probed them all; after None the
\* correlator reads no project directory for the working directory.
C10_CandidateOrder ==
    /\ Len(probed) <= Len(ClaimedOrder)
    /\ \A k \in 1..Len(probed) : probed[k] = ClaimedOrder[k]
    /\ fpc \in {"returned", "done"} =>
          IF \E k \in 1..Len(ClaimedOrder) : OnDisk(ClaimedOrder[k])
          THEN /\ project_dir = [found |-> TRUE, name |-> probed[Len(probed)]]
               /\ OnDisk(project_dir.name)
               /\ \A k \in 1..(Len(probed) - 1) : ~OnDisk(probed[k])
          ELSE /\ project_dir = [found |-> FALSE, name |-> << >>]
               /\ probed = ClaimedOrder
    /\ fpc = "done" =>
          correlated = (IF project_dir.found THEN {project_dir.name} ELSE {})

\* /a_b resolves to the directory -a-b, the fourth candidate, the other three
\* being absent.
C10_Witness ==
    /\ fpc = "done"
    /\ cur_cwd = <<"/", "a", "_", "b">>
    /\ existing = {<<"-", "a", "-", "b">>, <<"z">>}
    /\ probed = << <<"a", "_", "b">>, <<"-", "a", "_", "b">>, <<"a", "-", "b">>,
                   <<"-", "a", "-", "b">> >>
    /\ project_dir = [found |-> TRUE, name |-> <<"-", "a", "-", "b">>]
    /\ correlated = {<<"-", "a", "-", "b">>}

----------------------------------------------------------------------------
(* Claims about get_active_session_uuids (SpecActive).                      *)

\* The window tier has gone through every working directory it observed.
WindowTierOver == apc = "tier1" /\ todo = {}

Detected == apc = "done"

\* The project directory a working directory resolves to.
DirOf(c) == find_project_dir(ProjectNames, Chars(c))

\* The non-agent record files of a project directory.
RecordsOf(name) ==
    {i \in DOMAIN disk :
        Chars(disk[i].project) = name /\ disk[i].stem \notin {"agent-s1", "agent-s2", "agent-s3", "agent-s4"}}

Marked(recs) == {i \in recs : disk[i].stem \in active_uuids}

\* `marked` are the n largest of `recs`, or all of them if they are fewer.
IsLargest(marked, recs, n) ==
    /\ marked \subseteq recs
    /\ Cardinality(marked) = (IF n < Cardinality(recs) THEN n ELSE Cardinality(recs))
    /\ \A i \in marked : \A j \in recs \ marked : disk[i].size >= disk[j].size

NoAgentMarked ==
    \A i \in DOMAIN disk :
        disk[i].stem \in {"agent-s1", "agent-s2", "agent-s3", "agent-s4"}
            => disk[i].stem \notin active_uuids

\* C11 as claimed: at the end of the window tier, for every working
\* directory observed with N processes whose directory resolves, the marked
\* records of that directory are exactly its min(N, number of records) largest.
C11_TopN_AsClaimed ==
    WindowTierOver =>
        \A c \in DOMAIN cwd_counts :
            DirOf(c).found =>
                IsLargest(Marked(RecordsOf(DirOf(c).name)), RecordsOf(DirOf(c).name),
                          cwd_counts[c])

\* The largest count observed for a working directory resolving to `name`.
MaxCount(name) ==
    LET counts == {cwd_counts[c] : c \in {x \in DOMAIN cwd_counts : DirOf(x) = Found(name)}}
    IN  CHOOSE n \in counts : \A m \in counts : m <= n

\* C11: at the end of the window tier, for every project directory that an
\* observed working directory resolves to, the marked records are exactly
\* its min(M, number of records) largest non-agent records, M being the
\* largest count observed for a working directory resolving to it; no agent
\* record is marked.
C11_TopN ==
    WindowTierOver =>
        /\ \A c \in DOMAIN cwd_counts :
              DirOf(c).found =>
                  IsLargest(Marked(RecordsOf(DirOf(c).name)), RecordsOf(DirOf(c).name),
                            MaxCount(DirOf(c).name))
        /\ NoAgentMarked

\* One process was observed in a directory with two records of different
\* sizes: the larger record alone is marked.
C11_Witness ==
    /\ WindowTierOver
    /\ DOMAIN cwd_counts = {"/home/user/proj"}
    /\ cwd_counts["/home/user/proj"] = 1
    /\ \E i, j \in DOMAIN disk :
          /\ disk[i].stem \in active_uuids /\ disk[i].size = 900
          /\ disk[j].stem \notin active_uuids /\ disk[j].size = 500
          /\ j \in RecordsOf(Chars("home-user-proj"))

\* Whether the window tier marks anything, from what it can observe.
WindowTierMarks ==
    /\ wmctrl = "ok" /\ pstree = "ok"
    /\ \E c \in LiveCwds :
          windowed[c] > 0 /\ DirOf(c).found /\ RecordsOf(DirOf(c).name) # {}

Live(c) == windowed[c] + bare[c] > 0

\* C12: the process tier has run exactly if the window tier marked nothing;
\* when it has run and pgrep answered, the marked records are, for every
\* live working directory whose directory resolves, the single largest
\* non-agent record of that directory, however many processes share the
\* working directory, and nothing else is marked.
C12_Fallback ==
    Detected =>
        /\ pgrep # "none" <=> ~WindowTierMarks
        /\ pgrep = "ok" =>
              /\ \A c \in LiveCwds :
                    Live(c) /\ DirOf(c).found =>
                        IsLargest(Marked(RecordsOf(DirOf(c).name)), RecordsOf(DirOf(c).name), 1)
              /\ \A u \in active_uuids : \E c \in LiveCwds : \E i \in RecordsOf(DirOf(c).name) :
                    Live(c) /\ DirOf(c).found /\ disk[i].stem = u
        /\ pgrep \in {"missing", "timeout", "nonzero"} => active_uuids = {}

\* wmctrl is missing, three processes share a working directory whose
\* project directory holds two records: one record is marked.
C12_Witness ==
    /\ Detected
    /\ wmctrl = "missing" /\ pgrep = "ok"
    /\ windowed["/home/user/proj"] + bare["/home/user/proj"] = 3
    /\ Cardinality(RecordsOf(Chars("home-user-proj"))) = 2
    /\ Cardinality(active_uuids) = 1

\* C13: get_active_session_uuids never raises, however wmctrl, pstree and
\* pgrep end, and returns the empty set when no tool is available.
C13_ToolsTolerated ==
    /\ apc # "raised"
    /\ Detected /\ wmctrl # "ok" /\ pgrep # "ok" => active_uuids = {}
    /\ Detected /\ pstree \in {"missing", "timeout", "nonzero"} /\ pgrep # "ok" => active_uuids = {}

\* Processes are live and records exist, wmctrl answers, pstree is missing
\* and pgrep times out: the empty set is returned.
C13_Witness ==
    /\ Detected
    /\ wmctrl = "ok" /\ pstree = "missing" /\ pgrep = "timeout"
    /\ \E c \in LiveCwds : windowed[c] > 0
    /\ RecordsOf(Chars("home-user-proj")) # {}
    /\ active_uuids = {}

\* C14: when load_sessions has returned a Session with working directory c,
\* a live process has working directory c and c's project directory resolves,
\* the set of active identifiers holds the identifier of the Session.  Stated
\* for the favourable case in which wmctrl and pstree answer and the process
\* runs in a marked window.
C14_LiveSessionActive ==
    Detected /\ lpc = "done" /\ wmctrl = "ok" /\ pstree = "ok" =>
        \A k \in DOMAIN by_path :
            (/\ by_path[k].cwd \in LiveCwds
             /\ windowed[by_path[k].cwd] > 0
             /\ DirOf(by_path[k].cwd).found)
                => by_path[k].uuid \in active_uuids

----------------------------------------------------------------------------
(* Claims about the activity timeline (SpecPeriods).                        *)

Grouped == gpc \in {"built", "done"} /\ timestamps # << >>

RECURSIVE CountBefore(_)
\* The number of items in the periods before period k.
CountBefore(k) ==
    IF k = 1 THEN 0 ELSE CountBefore(k - 1) + timeline[1].periods[k - 1].message_count

FirstOf(k) == CountBefore(k) + 1
LastOf(k) == CountBefore(k) + timeline[1].periods[k].message_count

\* The period that holds item i.
PeriodOf(i) ==
    CHOOSE k \in 1..Len(timeline[1].periods) : FirstOf(k) <= i /\ i <= LastOf(k)

\* C15: the periods of a timeline cut the sorted evidence into runs; two
\* consecutive items are in one period exactly if the later is at most 30
\* minutes after the earlier; a period starts and ends at the times of its
\* first and last item, counts its items and carries the label of its first
\* item; the counts add up to the number of items.
C15_Periods ==
    Grouped =>
        LET ps == timeline[1].periods
            n == Len(timestamps)
        IN  /\ Len(ps) >= 1
            /\ \A k \in 1..Len(ps) : ps[k].message_count >= 1
            /\ CountBefore(Len(ps)) + ps[Len(ps)].message_count = n
            /\ timeline[1].total_messages = n
            /\ \A k \in 1..Len(ps) :
                  /\ ps[k].start = timestamps[FirstOf(k)].ts
                  /\ ps[k].end = timestamps[LastOf(k)].ts
                  /\ ps[k].first_message = timestamps[FirstOf(k)].msg
            /\ \A i \in 1..(n - 1) :
                  (PeriodOf(i) = PeriodOf(i + 1)) <=> (timestamps[i + 1].ts - timestamps[i].ts <= 30)

\* The evidence [t, t+5min, t+40min, t+41min], collected out of order, gives
\* the two periods [t, t+5min] and [t+40min, t+41min].
C15_Witness ==
    /\ gpc = "done"
    /\ timestamps = << [ts |-> 0, msg |-> "m2"], [ts |-> 5, msg |-> "m1"],
                       [ts |-> 40, msg |-> "m3"], [ts |-> 41, msg |-> "m4"] >>
    /\ timeline[1].periods =
          << [start |-> 0, end |-> 5, message_count |-> 2, first_message |-> "m2"],
             [start |-> 40, end |-> 41, message_count |-> 2, first_message |-> "m3"] >>

\* A gap of exactly 30 minutes does not split, a gap of 31 minutes does.
C15_WitnessBoundary ==
    /\ gpc = "done"
    /\ Len(timestamps) = 3
    /\ timestamps[1].ts = 5 /\ timestamps[2].ts = 35 /\ timestamps[3].ts = 71
    /\ Len(timeline[1].periods) = 2
    /\ timeline[1].periods[1].message_count = 2

RECURSIVE SumOfPeriods(_, _)
SumOfPeriods(ps, k) ==
    IF k = 0 THEN 0 ELSE SumOfPeriods(ps, k - 1) + (ps[k].end - ps[k].start)

\* C16: the total duration read from a timeline is the sum over its periods
\* of end minus start; it is never more than the time from the first to the
\* last activity, and less whenever there is more than one period.
C16_TotalDuration ==
    gpc = "done" =>
        LET tl == timeline[1]
            total == shown[1].total_duration
        IN  /\ total = SumOfPeriods(tl.periods, Len(tl.periods))
            /\ tl.first_activity # << >> =>
                  /\ total <= tl.last_activity[1] - tl.first_activity[1]
                  /\ shown[1].span = <<tl.last_activity[1] - tl.first_activity[1]>>
                  /\ Len(tl.periods) > 1 => total < tl.last_activity[1] - tl.first_activity[1]
            /\ tl.first_activity = << >> => total = 0

\* Two periods of 5 and 1 minutes, 35 minutes apart: 6 minutes of 41.
C16_Witness ==
    /\ gpc = "done"
    /\ Len(timeline[1].periods) = 2
    /\ shown[1].total_duration = 6
    /\ shown[1].span = <<41>>

----------------------------------------------------------------------------
(* Claims about the application's threads (SpecApp, SpecThreads,           *)
(* SpecWatch).  The background summarizer's turn of the loop reads the     *)
(* flag and makes the call in one step; the watcher, awake, reads the flag *)
(* and begins its pass in one step.                                        *)

\* The Session objects that had no summary when the background summarizer
\* built its list, in the order of the session list.
LackingAtStart ==
    LET lacking == SelectSeq(atBgStart, LAMBDA r : r.last_summary = << >>)
    IN  [i \in 1..Len(lacking) |-> lacking[i].obj]

StartedObjs == [i \in 1..Len(started) |-> started[i].obj]

\* C17: the background summarizer calls summarize_single on exactly the
\* sessions that had no summary when it started, in the order of the session
\* list and one at a time: what it has started is always an initial part of
\* that list, it makes a call only when the one before has returned and the
\* stop flag was not set when it looked, and when it ends without the flag
\* set it has gone through the whole list.
C17_BackgroundSummarizer ==
    /\ Len(started) <= Len(LackingAtStart)
    /\ StartedObjs = SubSeq(LackingAtStart, 1, Len(started))
    /\ \A i \in 1..Len(started) : ~started[i].stop
    /\ pc["caller"] # "idle" => /\ started # << >>
                                /\ arg["caller"] = started[Len(started)].obj
    /\ (bpc = "finished" /\ ~stop_summarizer) => StartedObjs = LackingAtStart

\* The first session had a summary, the second had none; the summarizer has
\* gone through its list, which is the second session alone.
C17_Witness ==
    /\ bpc = "finished"
    /\ ~stop_summarizer
    /\ Len(atBgStart) = 2
    /\ atBgStart[1].last_summary # << >>
    /\ StartedObjs = <<"o2">>
    /\ sessions["o2"].last_summary # << >>

\* C18, as the specification states it: once a reload has replaced the
\* session list, the summarizer that was started before the reload begins
\* no further session.
C18_StopsOnReload == \A i \in 1..Len(started) : ~started[i].reloaded

\* C19: the watcher never has two passes in progress; a pass begins only
\* when a whole interval has gone by since the pass before it ended (or
\* since the watcher started), however long that pass took; and no pass
\* begins with the stop flag set.
C19_Watcher ==
    /\ inPass <= 1
    /\ inPass = 1 <=> wpc = "pass"
    /\ lastPass # << >> => /\ lastPass[1].gap >= WATCH_INTERVAL
                           /\ ~lastPass[1].stop

\* A pass is in progress that began after a pass which took longer than the
\* interval.
C19_Witness ==
    /\ wpc = "pass"
    /\ lastPass # << >>
    /\ lastPass[1].prevLen > WATCH_INTERVAL

\* The session keeps every field but `field`.
OnlyChanges(field, old, new) ==
    CASE field = "last_summary" -> new = [old EXCEPT !.last_summary = new.last_summary]
      [] field = "is_active" -> new = [old EXCEPT !.is_active = new.is_active]

\* C20: a step of a summarize task (the background summarizer, a manual
\* regenerate) changes no field of any session but last_summary, a step of
\* the liveness watcher none but is_active, and neither adds, removes or
\* reorders sessions.
C20_Frame ==
    [][ /\ (pc' # pc \/ wpc' # wpc) =>
              /\ listing' = listing
              /\ DOMAIN sessions' = DOMAIN sessions
        /\ pc' # pc =>
              \A o \in DOMAIN sessions :
                  OnlyChanges("last_summary", sessions[o], sessions'[o])
        /\ wpc' # wpc =>
              \A o \in DOMAIN sessions :
                  OnlyChanges("is_active", sessions[o], sessions'[o]) ]_vars

\* A pass has marked the first session live, the background summarizer has
\* given the second its summary, and a regenerate has run.
C20_Witness ==
    /\ sessions["o1"].is_active
    /\ sessions["o2"].last_summary # << >>
    /\ regens > 0
    /\ pc["regen"] = "idle"

----------------------------------------------------------------------------
(* Claims about manual regenerates and the shared cache (SpecRegen,        *)
(* SpecApp).                                                               *)

\* C21: a regenerate request takes the selected session's entry out of the
\* persisted cache and leaves the other entries, blanks the session's
\* last_summary and starts exactly one thread, which is to summarize that
\* session; the request is over with the thread only started, and the main
\* loop is still running.
C21_Regenerate ==
    [][ regens' # regens =>
          \E o \in Members(listing) :
             /\ ~KeyIn(cacheFile', sessions[o].uuid)
             /\ \A k \in DOMAIN cacheFile.map \ {sessions[o].uuid} :
                   KeyIn(cacheFile', k) /\ cacheFile'.map[k] = cacheFile.map[k]
             /\ sessions'[o].last_summary = << >>
             /\ Cardinality({t \in DOMAIN pc : pc'[t] # pc[t]}) = 1
             /\ \A t \in DOMAIN pc :
                   pc'[t] # pc[t] => /\ pc[t] = "idle"
                                     /\ pc'[t] = "start"
                                     /\ arg'[t] = o
             /\ running' ]_vars

\* A second request has been handled while the task of the first, whose
\* session had an entry in the cache, is still waiting for the generator.
C21_Witness ==
    /\ regens = 2
    /\ pc["regen"] = "full"
    /\ pc["regen2"] = "start"
    /\ arg["regen"] = "o1"
    /\ arg["regen2"] = "o2"
    /\ cacheFile = EmptyCache
    /\ atCall.cache # EmptyCache

\* C22: liveness is derived.  The sessions a load makes are not marked
\* live, and when a liveness pass ends every session of the list it went
\* through is marked live exactly if its identifier is in the set the pass
\* computed, whatever it was marked before.
C22_Derived ==
    [][ /\ reloads' # reloads =>
              \A o \in Members(listing') : ~sessions'[o].is_active
        /\ (wpc = "pass" /\ wpc' = "loop") =>
              \A o \in Members(passList) :
                  sessions'[o].is_active <=> sessions[o].uuid \in active_uuids' ]_vars

\* A pass marked the first session live; then a reload made new sessions,
\* none of them marked; the next pass has begun on the new list.
C22_Witness ==
    /\ reloads = 1
    /\ sessions["o1"].is_active
    /\ ~sessions["o2"].is_active
    /\ active_uuids = {"u1"}
    /\ ~sessions["o3"].is_active
    /\ passList = <<"o3", "o4">>

\* The task's last call of summarize_single generated a title and stored it.
Succeeded(t) == pc[t] \in {"done", "idle"} /\ summary[t] # << >>

UuidOf(t) == sessions[arg[t]].uuid

\* C23, as the specification states it: when two summarize tasks on
\* different sessions have both generated and stored a title, the persisted
\* cache holds the entries of both sessions.
C23_NoLostUpdate ==
    \A t1, t2 \in DOMAIN pc :
        (t1 # t2 /\ Succeeded(t1) /\ Succeeded(t2) /\ UuidOf(t1) # UuidOf(t2)) =>
            /\ KeyIn(cacheFile, UuidOf(t1))
            /\ KeyIn(cacheFile, UuidOf(t2))

\* C24, as the specification states it: once a regenerate request has
\* taken a session's entry out of the persisted cache, the entry an earlier
\* run had left is not in the cache again, and the regenerate task does
\* not load it.
C24_DeletedStaysDeleted ==
    regens > 0 =>
        /\ ~(/\ KeyIn(cacheFile, UuidOf("regen"))
             /\ cacheFile.map[UuidOf("regen")].summary = LegacyTitle)
        /\ pc["regen"] = "loaded" =>
              ~(/\ KeyIn(cache["regen"], UuidOf("regen"))
                /\ cache["regen"].map[UuidOf("regen")].summary = LegacyTitle)

\* C26, as the specification states it: once a reload has replaced the
\* session list, every session of the list that has an entry in the
\* persisted cache shows the summary of that entry.
C26_ReloadAnnotated ==
    reloads > 0 =>
        \A o \in Members(listing) :
            KeyIn(cacheFile, sessions[o].uuid) =>
                sessions[o].last_summary = cacheFile.map[sessions[o].uuid].summary

\* C27 (as claimed): a call that keeps a stale entry leaves the persisted
\* cache as it was, and a call on a structured entry whose recorded size the
\* session has outgrown by 10000 bytes or more issues a delta regeneration.
C27_Cumulative_AsClaimed ==
    (Finished /\ Structured0) =>
        /\ (Stale0 /\ Growth0 < 10000 /\ ~GeneratorInvoked) => cacheFile = Cache0
        /\ Growth0 >= 10000 => DeltaIssued

\* C27 (amended): for a session with an excerpt and a structured entry whose
\* fingerprint differs, growth is measured against the size the entry
\* records: below 10000 the call leaves the persisted cache as it was and
\* calls no generator, at 10000 or more it issues one delta regeneration;
\* and a structured entry changes only in a call that has called the
\* generator, so the recorded size is the one of the last generation (or of
\* the migration of a legacy entry).
C27_Cumulative ==
    /\ [](  (Finished /\ Stale0 /\ HasExcerpt0) =>
               /\ Growth0 < 10000 => (cacheFile = Cache0 /\ ~GeneratorInvoked)
               /\ Growth0 >= 10000 => (DeltaIssued /\ Len(genLog) = 1) )
    /\ [][ \A u \in DOMAIN cacheFile.map :
              (cacheFile.map[u].shape = "dict" /\ cacheFile'.map[u] # cacheFile.map[u])
                  => genLog' # << >> ]_vars

\* The entry of a generation has been outgrown by exactly 10000 bytes in two
\* appends of 5000, and the call has issued a delta regeneration.
C27_Witness ==
    /\ Finished /\ Stale0 /\ HasExcerpt0
    /\ Entry0.summary # LegacyTitle
    /\ Growth0 = 10000
    /\ DeltaIssued

----------------------------------------------------------------------------
(* Claims about the detail view (SpecDetail) and the session list          *)
(* (SpecList).                                                             *)

\* C25, as the specification states it: the log and the generating flag of
\* a detail state are written only by a generation thread that was started
\* for the session it shows.
C25_OwnTaskOnly ==
    \A d \in 1..Len(detail_states) :
        detail_states[d].by # 0 =>
            detail_states[log_threads[detail_states[d].by].home].session
                = detail_states[d].session

\* C28: in the session list the cursor is never negative and never beyond
\* the last row of the filtered list: 0 <= cursor <= max(0, len(filtered) - 1)
\* after any cursor and page moves, top and bottom jumps, sort toggles and
\* filter cycles, the empty filtered list included.
C28_CursorInRange ==
    /\ 0 <= cursor
    /\ cursor <= Max(0, Len(filtered) - 1)

\* C29: whenever the filtered list is not empty the cursor's row is on the
\* page: scroll_offset <= cursor < scroll_offset + page_size, after cursor
\* moves, sort toggles, filter cycles and page-size updates.
C29_CursorVisible ==
    filtered # << >> =>
        /\ scroll_offset <= cursor
        /\ cursor < scroll_offset + page_size

(***************************************************************************)
(* Claims about the evidence behind the active set (SpecWindows).          *)
(***************************************************************************)
RECURSIVE SumOver(_, _)
SumOver(f, S) ==
    IF S = {} THEN 0
    ELSE LET c == CHOOSE x \in S : TRUE IN f[c] + SumOver(f, S \ {c})

\* The live processes, with a marked window or without.
LiveProcesses == SumOver([c \in LiveCwds |-> windowed[c] + bare[c]], LiveCwds)

\* C30: the returned set is bounded by the evidence: it holds no more
\* identifiers than there are live processes to detect, and every identifier
\* in it is the stem of a non-agent record file of a project directory that
\* the working directory of a live process resolves to.
C30_BoundedByEvidence ==
    Detected =>
        /\ Cardinality(active_uuids) <= LiveProcesses
        /\ \A u \in active_uuids :
              \E c \in LiveCwds :
                  /\ Live(c)
                  /\ DirOf(c).found
                  /\ u \in Uuids(RecordsOf(DirOf(c).name))

====
